---- MODULE Spec2Model ----
(***************************************************************************)
(* Credential and session lifecycle of the backend: the UserLogin model    *)
(* (models/userLogin.model.js), the auth service (services/auth.service.js)*)
(* and the persistence behaviour of its read-modify-save handlers.         *)
(***************************************************************************)
EXTENDS Integers, Sequences, FiniteSets, TLC

\* ------------------------------------------------------------------------
\* Bounds of the model (not program constants)
\* ------------------------------------------------------------------------
\* longest refreshTokens list a record may reach
MaxTokens == 2
\* longest loginHistory a device may reach
MaxHistory == 2
\* largest failedLoginAttempts a record may reach where lockout is explored
MaxFailed == 6
\* largest failedLoginAttempts a record may reach where sessions are explored
MaxFailedSession == 0

\* ------------------------------------------------------------------------
\* Program constants
\* ------------------------------------------------------------------------
\* failedLoginAttempts >= 5 locks the record
FailureThreshold == 5
\* 15 * 60 * 1000 ms
LockDurationMs == 900000
\* 1000 * 60: remaining time is reported in minutes
MsPerMinute == 60000
\* "7d" in seconds
RefreshExpirySec == 604800
\* Date values are milliseconds, JWT iat/exp are seconds
MsPerSecond == 1000
\* lockUntil / logoutAt / lastLogin default: null
NullDate == -1

\* ------------------------------------------------------------------------
\* Input domains
\* ------------------------------------------------------------------------
\* instants at which the clock is observed (ms)
Instants == {0, 500, 900000, 604800000}
\* the instants observed where sessions are explored
SessionInstants == {0, 900000}
\* User._id values and UserLogin._id values: ObjectIds, never equal
UserIds == {"u1", "u2"}
LoginDocIds == {"l1"}
NoDoc == "none"
\* device identifiers; NoDevice is a missing (falsy) deviceId
DeviceIds == {"dev-A", "dev-B"}
NoDevice == ""
\* plain passwords
Passwords == {"12345678", "p@ss1"}
DefaultPassword == "12345678"

\* tokens: a signed JWT is determined by its payload and its signing key
NullToken == [id |-> "null", iat |-> -1, sig |-> "none"]
ForgedToken == [id |-> "u1", iat |-> 0, sig |-> "forged"]

\* error messages of the service
ErrNone == "ok"
ErrInvalid == "Invalid login credentials"
\* a message for a wrong password that differs from the one for an unknown
\* handle
ErrBadPasswordDistinct == "Invalid password"
\* login, wrong password (the literal at the second throw site)
ErrBadPassword == "Invalid login credentials"
ErrPermLocked == "Account is permanently locked. Contact administrator."
ErrTempLocked == "Account is locked. Try again in N minutes."
ErrNoAssocUser == "Associated user not found"
ErrLoginDisabled == "User is not allowed to login"
ErrUserNotFound == "User not found"
ErrDeviceNotFound == "Device not found"
ErrDeviceToken == "Invalid refresh token for this device"
ErrTokenExpired == "Refresh token has expired. Please login again."
ErrTokenInvalid == "invalid signature"
ErrTokenNotFound == "Token not found"
ErrWrongOldPassword == "Current password is incorrect"
\* mongoose VersionError raised by save
ErrVersion == "No matching document found for id"

\* ------------------------------------------------------------------------
\* Helpers: strings, hashing, tokens
\* ------------------------------------------------------------------------
\* String.prototype.toLowerCase on the login inputs
ToLowerCase(s) ==
  CASE s = "Alice" -> "alice"
    [] s = "U-1" -> "u-1"
    [] s = "Bob" -> "bob"
    [] s = "Al Ice" -> "al ice"
    [] OTHER -> s

\* bcryptjs.hash: one-way, the plain text is recoverable only by comparison
BcryptHash(plain) == <<"bcrypt", plain>>

\* userLoginSchema.methods.comparePassword
ComparePassword(doc, candidate) == doc.password = BcryptHash(candidate)

\* Math.ceil(a / b) for a > 0
CeilDiv(a, b) == (a + b - 1) \div b

\* jwt.sign({ id: this.user }, REFRESH_TOKEN_SECRET, {expiresIn}) at time t:
\* the payload is {id, iat, exp} with iat in whole seconds
JwtSignRefresh(doc, t) ==
  [id |-> doc.user, iat |-> t \div MsPerSecond, sig |-> "refresh"]

\* jwt.verify(token, REFRESH_TOKEN_SECRET) at time t
JwtVerifyRefresh(token, t) ==
  IF token.sig # "refresh" THEN ErrTokenInvalid
  ELSE IF t \div MsPerSecond >= token.iat + RefreshExpirySec THEN ErrTokenExpired
  ELSE ErrNone

\* index of the first element of seq satisfying deviceId = d, 0 if none
\* (Array.prototype.find)
RECURSIVE FindFrom(_, _, _)
FindFrom(devs, d, i) ==
  IF i > Len(devs) THEN 0
  ELSE IF devs[i].deviceId = d THEN i
  ELSE FindFrom(devs, d, i + 1)

FindDevice(devs, d) == FindFrom(devs, d, 1)

\* ------------------------------------------------------------------------
\* UserLogin document methods (pure: document in, document out)
\* ------------------------------------------------------------------------
\* the paths of userLoginSchema and their defaults (lastLogin, which no
\* decision reads, is left out)
SchemaDefaults ==
  [ user |-> "", username |-> "", password |-> "",
    refreshTokens |-> << >>,
    failedLoginAttempts |-> 0, lockLevel |-> 0, lockUntil |-> NullDate,
    isPermanentlyLocked |-> FALSE, isLoggedIn |-> FALSE,
    loggedInDevices |-> << >> ]

\* the paths of userLoginSchema
SchemaPaths == DOMAIN SchemaDefaults

\* new UserLogin(given) after its first save: a strict schema keeps the
\* given values of its own paths only, the others take their defaults, the
\* pre-save hook hashes the password
StrictDocument(id, given) ==
  [path \in SchemaPaths \cup {"_id", "version"} |->
     IF path = "_id" THEN id
     ELSE IF path = "version" THEN 0
     ELSE IF path = "password" THEN BcryptHash(given.password)
     ELSE IF path \in DOMAIN given THEN given[path]
     ELSE SchemaDefaults[path]]

\* new UserLogin({user, username, password, forcePasswordChange: true})
\* after its first save
NewUserLogin(id, user, username, plain) ==
  StrictDocument(id, [user |-> user, username |-> username,
                      password |-> plain, forcePasswordChange |-> TRUE])

\* !!userLogin.forcePasswordChange
ForcePasswordChange(doc) ==
  "forcePasswordChange" \in DOMAIN doc /\ doc.forcePasswordChange

\* a generateRefreshToken that keeps one refreshTokens entry per device
GenerateRefreshTokenDocReplacing(doc, deviceId, t) ==
  LET token == JwtSignRefresh(doc, t)
      entry == [token |-> token, deviceId |-> deviceId]
      others == SelectSeq(doc.refreshTokens, LAMBDA e : e.deviceId # deviceId)
      withTok == [doc EXCEPT !.refreshTokens = Append(others, entry)]
      i == FindDevice(doc.loggedInDevices, deviceId)
  IN IF i # 0
       THEN [withTok EXCEPT
               !.loggedInDevices[i].refreshToken = token,
               !.loggedInDevices[i].loginCount = @ + 1,
               !.loggedInDevices[i].loginHistory =
                   Append(@, [loginAt |-> t, logoutAt |-> NullDate])]
       ELSE [withTok EXCEPT
               !.loggedInDevices = Append(@,
                  [deviceId |-> deviceId, refreshToken |-> token,
                   loginCount |-> 1,
                   loginHistory |-> <<[loginAt |-> t, logoutAt |-> NullDate]>>])]

\* generateRefreshToken: the document after the call
GenerateRefreshTokenDoc(doc, deviceId, t) ==
  LET token == JwtSignRefresh(doc, t)
      entry == [token |-> token,
                deviceId |-> IF deviceId # NoDevice THEN deviceId ELSE "unknown"]
      withTok == [doc EXCEPT !.refreshTokens = Append(@, entry)]
      i == FindDevice(doc.loggedInDevices, deviceId)
  IN IF deviceId = NoDevice THEN withTok
     ELSE IF i # 0
       THEN [withTok EXCEPT
               !.loggedInDevices[i].refreshToken = token,
               !.loggedInDevices[i].loginCount = @ + 1,
               !.loggedInDevices[i].loginHistory =
                   Append(@, [loginAt |-> t, logoutAt |-> NullDate])]
       ELSE [withTok EXCEPT
               !.loggedInDevices = Append(@,
                  [deviceId |-> deviceId, refreshToken |-> token,
                   loginCount |-> 1,
                   loginHistory |-> <<[loginAt |-> t, logoutAt |-> NullDate]>>])]

\* a verification that also accepts any token the list records for the device
VerifyRefreshTokenInList(doc, token, deviceId) ==
  LET i == FindDevice(doc.loggedInDevices, deviceId)
  IN IF deviceId = NoDevice THEN FALSE
     ELSE IF i = 0 THEN FALSE
     ELSE \/ doc.loggedInDevices[i].refreshToken = token
          \/ \E k \in 1..Len(doc.refreshTokens) :
               /\ doc.refreshTokens[k].token = token
               /\ doc.refreshTokens[k].deviceId = deviceId

\* verifyRefreshTokenForDevice
VerifyRefreshTokenForDevice(doc, token, deviceId) ==
  LET i == FindDevice(doc.loggedInDevices, deviceId)
  IN IF deviceId = NoDevice THEN FALSE
     ELSE IF i = 0 THEN FALSE
     ELSE doc.loggedInDevices[i].refreshToken = token

\* a closing that stamps the last entry whether or not it was open
CloseDeviceAlways(dev, t) ==
  LET n == Len(dev.loginHistory)
      hist == IF n > 0
                THEN [dev.loginHistory EXCEPT ![n].logoutAt = t]
                ELSE dev.loginHistory
  IN [dev EXCEPT !.loginHistory = hist, !.refreshToken = NullToken]

\* a closing that clears the token and leaves the history as it is
CloseDeviceKeepOpen(dev, t) == [dev EXCEPT !.refreshToken = NullToken]

\* the device after "mark last login as logged out; clear the refresh token"
CloseDevice(dev, t) ==
  LET n == Len(dev.loginHistory)
      hist == IF n > 0 /\ dev.loginHistory[n].logoutAt = NullDate
                THEN [dev.loginHistory EXCEPT ![n].logoutAt = t]
                ELSE dev.loginHistory
  IN [dev EXCEPT !.loginHistory = hist, !.refreshToken = NullToken]

\* logoutDevice: the returned boolean
LogoutDeviceOk(doc, deviceId) ==
  deviceId # NoDevice /\ FindDevice(doc.loggedInDevices, deviceId) # 0

\* a logoutDevice that closes every device of the record
LogoutDeviceDocAll(doc, deviceId, t) ==
  IF LogoutDeviceOk(doc, deviceId)
    THEN [doc EXCEPT !.loggedInDevices =
            [i \in 1..Len(doc.loggedInDevices) |->
               CloseDevice(doc.loggedInDevices[i], t)]]
    ELSE doc

\* logoutDevice: the document after the call
LogoutDeviceDoc(doc, deviceId, t) ==
  LET i == FindDevice(doc.loggedInDevices, deviceId)
  IN IF LogoutDeviceOk(doc, deviceId)
       THEN [doc EXCEPT !.loggedInDevices[i] = CloseDevice(@, t)]
       ELSE doc

\* a logoutAllDevices that forgets the devices
LogoutAllDevicesDocDrop(doc, t) ==
  [doc EXCEPT !.loggedInDevices = << >>, !.refreshTokens = << >>]

\* logoutAllDevices: the document after the call
LogoutAllDevicesDoc(doc, t) ==
  [doc EXCEPT
     !.loggedInDevices = [i \in 1..Len(doc.loggedInDevices) |->
                             CloseDevice(doc.loggedInDevices[i], t)],
     !.refreshTokens = << >>]

\* refreshTokens.filter((rt) => rt.token !== token)
RECURSIVE FilterTokens(_, _)
FilterTokens(rts, token) ==
  IF rts = << >> THEN << >>
  ELSE IF Head(rts).token # token
    THEN <<Head(rts)>> \o FilterTokens(Tail(rts), token)
    ELSE FilterTokens(Tail(rts), token)

\* revokeRefreshToken: the returned boolean (refreshTokens is always an array)
RevokeRefreshTokenOk(doc, token) == TRUE

\* a revocation that also takes the token from the devices holding it
RevokeRefreshTokenDocClearing(doc, token) ==
  [doc EXCEPT
     !.refreshTokens = FilterTokens(@, token),
     !.loggedInDevices =
        [i \in 1..Len(@) |->
           IF @[i].refreshToken = token
             THEN [@[i] EXCEPT !.refreshToken = NullToken]
             ELSE @[i]]]

\* revokeRefreshToken: the document after the call
RevokeRefreshTokenDoc(doc, token) ==
  [doc EXCEPT !.refreshTokens = FilterTokens(@, token)]

\* loggedInDevices.filter((d) => d.refreshToken !== null)
ActiveDeviceCount(doc) ==
  Cardinality({i \in 1..Len(doc.loggedInDevices) :
                 doc.loggedInDevices[i].refreshToken # NullToken})

\* ------------------------------------------------------------------------
\* State
\* ------------------------------------------------------------------------
VARIABLES
  logins,   \* the UserLogin collection: _id -> document
  users,    \* the User collection: _id -> document
  now,      \* the clock (ms)
  issued,   \* refresh tokens handed to clients so far
  resp,     \* the response to the latest service call
  proc      \* request handlers in flight (read-modify-save steps)

vars == <<logins, users, now, issued, resp, proc>>

\* request handlers that may run concurrently
ProcIds == {"p1", "p2"}

IdleProc == [op |-> "idle", pc |-> "idle"]

\* a response: the error message (ErrNone on success) and, for the
\* temporary-lock error, the minutes it reports; seen is the
\* failedLoginAttempts a login read from the document it resolved
Response(op, err, remaining) ==
  [op |-> op, err |-> err, remaining |-> remaining, seen |-> 0,
   forcePasswordChange |-> FALSE]

LoginResponse(err, remaining, seen) ==
  [op |-> "login", err |-> err, remaining |-> remaining, seen |-> seen,
   forcePasswordChange |-> FALSE]

\* the seeded users: alice may log in and has credentials, bob has none
SeedUsers ==
  [u \in UserIds |->
     IF u = "u1"
       THEN [userId |-> "U-1", email |-> "alice@x", canLogin |-> TRUE,
             isActive |-> TRUE, role |-> "user", name |-> "Alice",
             isBlocked |-> FALSE]
       ELSE [userId |-> "U-2", email |-> "bob@x", canLogin |-> FALSE,
             isActive |-> TRUE, role |-> "admin", name |-> "Bob",
             isBlocked |-> FALSE]]

\* createUserLoginCredentials(u1, "Alice"): username from the name, default
\* password
SeedLogins ==
  [id \in LoginDocIds |-> NewUserLogin(id, "u1", "alice", DefaultPassword)]

Init ==
  /\ logins = SeedLogins
  /\ users = SeedUsers
  /\ now = 0
  /\ issued = {}
  /\ resp = Response("none", ErrNone, 0)
  /\ proc = [p \in ProcIds |-> IdleProc]

\* the documents stay within the bounds of the model
WithinBounds(db, maxFailed) ==
  \A id \in DOMAIN db :
    /\ Len(db[id].refreshTokens) <= MaxTokens
    /\ db[id].failedLoginAttempts <= maxFailed
    /\ \A i \in 1..Len(db[id].loggedInDevices) :
         Len(db[id].loggedInDevices[i].loginHistory) <= MaxHistory

\* ------------------------------------------------------------------------
\* Queries
\* ------------------------------------------------------------------------
\* UserLogin.findOne({ user: userId })
FindLoginByUser(db, userId) ==
  LET hits == {id \in DOMAIN db : db[id].user = userId}
  IN IF hits = {} THEN NoDoc ELSE CHOOSE id \in hits : TRUE

\* a lookup that treats the id as the user reference of the record
FindLoginByUserRef(db, id) == FindLoginByUser(db, id)

\* UserLogin.findById(id)
FindLoginById(db, id) ==
  IF id \in DOMAIN db THEN id ELSE NoDoc

\* login's resolver: by username (lower-cased), else by the user's userId
\* or email and then by that user's _id
ResolveLogin(db, udb, loginId) ==
  LET byName == {id \in DOMAIN db : db[id].username = ToLowerCase(loginId)}
      byUser == {u \in DOMAIN udb :
                   udb[u].userId = loginId \/ udb[u].email = loginId}
  IN IF byName # {} THEN CHOOSE id \in byName : TRUE
     ELSE IF byUser # {} THEN FindLoginByUser(db, CHOOSE u \in byUser : TRUE)
     ELSE NoDoc

\* ------------------------------------------------------------------------
\* login: the decisions of the handler, as functions of the document read
\* ------------------------------------------------------------------------
\* a lockout check for which a temporary lock lasts until it is cleared
LockoutCheckUntilCleared(doc, t) ==
  IF doc.isPermanentlyLocked THEN ErrPermLocked
  ELSE IF doc.lockUntil # NullDate THEN ErrTempLocked
  ELSE ErrNone

\* a lockout check that looks at the temporary lock first
LockoutCheckTemporaryFirst(doc, t) ==
  IF doc.lockUntil # NullDate /\ t < doc.lockUntil THEN ErrTempLocked
  ELSE IF doc.isPermanentlyLocked THEN ErrPermLocked
  ELSE ErrNone

\* the lockout check of login: ErrNone when the attempt may proceed
LockoutCheck(doc, t) ==
  IF doc.isPermanentlyLocked THEN ErrPermLocked
  ELSE IF doc.lockUntil # NullDate /\ t < doc.lockUntil THEN ErrTempLocked
  ELSE ErrNone

\* Math.ceil((lockUntil - new Date()) / (1000 * 60))
RemainingMinutes(doc, t) == CeilDiv(doc.lockUntil - t, MsPerMinute)

\* a failure count that locks one attempt late
FailedAttemptDocLate(doc, t) ==
  LET n == doc.failedLoginAttempts + 1
  IN IF n > FailureThreshold
       THEN [doc EXCEPT !.failedLoginAttempts = n, !.lockLevel = 1,
                        !.lockUntil = t + LockDurationMs]
       ELSE [doc EXCEPT !.failedLoginAttempts = n]

\* a failure count that starts again once a temporary lock has expired
FailedAttemptDocFresh(doc, t) ==
  LET n == IF doc.lockUntil # NullDate THEN 1 ELSE doc.failedLoginAttempts + 1
  IN IF n >= FailureThreshold
       THEN [doc EXCEPT !.failedLoginAttempts = n, !.lockLevel = 1,
                        !.lockUntil = t + LockDurationMs]
       ELSE [doc EXCEPT !.failedLoginAttempts = n, !.lockLevel = 0,
                        !.lockUntil = NullDate]

\* the document after a wrong password
FailedAttemptDoc(doc, t) ==
  LET n == doc.failedLoginAttempts + 1
  IN IF n >= FailureThreshold
       THEN [doc EXCEPT !.failedLoginAttempts = n, !.lockLevel = 1,
                        !.lockUntil = t + LockDurationMs]
       ELSE [doc EXCEPT !.failedLoginAttempts = n]

\* a successful login that forgets to clear the lock fields
SuccessfulLoginDocKeepLock(doc, deviceId, t) ==
  GenerateRefreshTokenDoc(
    [doc EXCEPT !.failedLoginAttempts = 0, !.isLoggedIn = TRUE],
    deviceId, t)

\* the document after a successful login from deviceId
SuccessfulLoginDoc(doc, deviceId, t) ==
  GenerateRefreshTokenDoc(
    [doc EXCEPT !.failedLoginAttempts = 0, !.lockLevel = 0,
                !.lockUntil = NullDate, !.isLoggedIn = TRUE],
    deviceId, t)

\* a login that takes a disabled identity for a wrong password
LoginOutcomeCountsDisabled(db, udb, loginId, password, t) ==
  LET id == ResolveLogin(db, udb, loginId)
  IN IF id = NoDoc THEN ErrInvalid
     ELSE IF LockoutCheck(db[id], t) # ErrNone THEN LockoutCheck(db[id], t)
     ELSE IF ~ComparePassword(db[id], password) THEN ErrBadPassword
     ELSE IF db[id].user \notin DOMAIN udb THEN ErrNoAssocUser
     ELSE IF ~udb[db[id].user].canLogin \/ ~udb[db[id].user].isActive
       THEN ErrBadPassword
     ELSE ErrNone

\* a login that compares the password before it looks at the locks
LoginOutcomePasswordFirst(db, udb, loginId, password, t) ==
  LET id == ResolveLogin(db, udb, loginId)
  IN IF id = NoDoc THEN ErrInvalid
     ELSE IF ~ComparePassword(db[id], password) THEN ErrBadPassword
     ELSE IF LockoutCheck(db[id], t) # ErrNone THEN LockoutCheck(db[id], t)
     ELSE IF db[id].user \notin DOMAIN udb THEN ErrNoAssocUser
     ELSE IF ~udb[db[id].user].canLogin \/ ~udb[db[id].user].isActive
       THEN ErrLoginDisabled
     ELSE ErrNone

\* the error a login ends with, ErrNone on success
LoginOutcome(db, udb, loginId, password, t) ==
  LET id == ResolveLogin(db, udb, loginId)
  IN IF id = NoDoc THEN ErrInvalid
     ELSE IF LockoutCheck(db[id], t) # ErrNone THEN LockoutCheck(db[id], t)
     ELSE IF ~ComparePassword(db[id], password) THEN ErrBadPassword
     ELSE IF db[id].user \notin DOMAIN udb THEN ErrNoAssocUser
     ELSE IF ~udb[db[id].user].canLogin \/ ~udb[db[id].user].isActive
       THEN ErrLoginDisabled
     ELSE ErrNone

\* ------------------------------------------------------------------------
\* Service operations, each handler running alone from request to response
\* ------------------------------------------------------------------------
Login(loginId, password, deviceId) ==
  LET id == ResolveLogin(logins, users, loginId)
      err == LoginOutcome(logins, users, loginId, password, now)
      doc == logins[id]
      failed == FailedAttemptDoc(doc, now)
      ok == SuccessfulLoginDoc(doc, deviceId, now)
  IN /\ \A p \in ProcIds : proc[p].pc = "idle"
     /\ IF err = ErrNone
          THEN /\ logins' = [logins EXCEPT ![id] = ok]
               /\ issued' = issued \cup {JwtSignRefresh(doc, now)}
               /\ resp' = [LoginResponse(ErrNone, 0, doc.failedLoginAttempts)
                            EXCEPT !.forcePasswordChange =
                                     ForcePasswordChange(ok)]
          ELSE IF err = ErrBadPassword /\ id # NoDoc
                    /\ LockoutCheck(doc, now) = ErrNone
            THEN /\ logins' = [logins EXCEPT ![id] = failed]
                 /\ resp' = LoginResponse(err, 0, doc.failedLoginAttempts)
                 /\ UNCHANGED issued
          ELSE /\ resp' = LoginResponse(err,
                     IF err = ErrTempLocked
                       THEN RemainingMinutes(doc, now) ELSE 0,
                     IF id # NoDoc THEN doc.failedLoginAttempts ELSE 0)
               /\ UNCHANGED <<logins, issued>>
     /\ UNCHANGED <<users, now, proc>>

\* the error a refresh ends with, ErrNone on success
RefreshOutcome(db, token, deviceId, t) ==
  LET id == FindLoginById(db, token.id)
  IN IF JwtVerifyRefresh(token, t) # ErrNone THEN JwtVerifyRefresh(token, t)
     ELSE IF id = NoDoc THEN ErrUserNotFound
     ELSE IF ~VerifyRefreshTokenForDevice(db[id], token, deviceId)
       THEN ErrDeviceToken
     ELSE ErrNone

RefreshTokens(token, deviceId) ==
  LET id == FindLoginById(logins, token.id)
      err == RefreshOutcome(logins, token, deviceId, now)
      doc == logins[id]
      rotated == GenerateRefreshTokenDoc(doc, deviceId, now)
  IN /\ \A p \in ProcIds : proc[p].pc = "idle"
     /\ IF err = ErrNone
          THEN /\ logins' = [logins EXCEPT ![id] = rotated]
               /\ issued' = issued \cup {JwtSignRefresh(doc, now)}
          ELSE UNCHANGED <<logins, issued>>
     /\ resp' = Response("refresh", err, 0)
     /\ UNCHANGED <<users, now, proc>>

\* isLoggedIn after logout: cleared when no device holds a token
AfterLogoutFlag(doc) ==
  IF ActiveDeviceCount(doc) = 0 THEN [doc EXCEPT !.isLoggedIn = FALSE] ELSE doc

Logout(userId, deviceId) ==
  LET id == FindLoginByUser(logins, userId)
      doc == logins[id]
  IN /\ \A p \in ProcIds : proc[p].pc = "idle"
     /\ IF id = NoDoc
          THEN /\ resp' = Response("logout", ErrUserNotFound, 0)
               /\ UNCHANGED logins
          ELSE IF ~LogoutDeviceOk(doc, deviceId)
            THEN /\ resp' = Response("logout", ErrDeviceNotFound, 0)
                 /\ UNCHANGED logins
          ELSE /\ logins' = [logins EXCEPT ![id] =
                     AfterLogoutFlag(LogoutDeviceDoc(doc, deviceId, now))]
               /\ resp' = Response("logout", ErrNone, 0)
     /\ UNCHANGED <<users, now, issued, proc>>

LogoutAllDevices(userId) ==
  LET id == FindLoginByUser(logins, userId)
      doc == logins[id]
  IN /\ \A p \in ProcIds : proc[p].pc = "idle"
     /\ IF id = NoDoc
          THEN /\ resp' = Response("logoutAll", ErrUserNotFound, 0)
               /\ UNCHANGED logins
          ELSE /\ logins' = [logins EXCEPT ![id] =
                     [LogoutAllDevicesDoc(doc, now) EXCEPT !.isLoggedIn = FALSE]]
               /\ resp' = Response("logoutAll", ErrNone, 0)
     /\ UNCHANGED <<users, now, issued, proc>>

RevokeToken(userId, token) ==
  LET id == FindLoginByUser(logins, userId)
      doc == logins[id]
  IN /\ \A p \in ProcIds : proc[p].pc = "idle"
     /\ IF id = NoDoc
          THEN /\ resp' = Response("revoke", ErrUserNotFound, 0)
               /\ UNCHANGED logins
          ELSE IF ~RevokeRefreshTokenOk(doc, token)
            THEN /\ resp' = Response("revoke", ErrTokenNotFound, 0)
                 /\ UNCHANGED logins
          ELSE /\ logins' = [logins EXCEPT ![id] =
                     RevokeRefreshTokenDoc(doc, token)]
               /\ resp' = Response("revoke", ErrNone, 0)
     /\ UNCHANGED <<users, now, issued, proc>>

\* a lockAccount that leaves the device sessions open
LockAccountDocKeepSessions(doc, t) ==
  [doc EXCEPT !.isPermanentlyLocked = TRUE, !.isLoggedIn = FALSE]

\* the document after lockAccount
LockAccountDoc(doc, t) ==
  LogoutAllDevicesDoc(
    [doc EXCEPT !.isPermanentlyLocked = TRUE, !.isLoggedIn = FALSE], t)

LockAccount(userId) ==
  LET id == FindLoginByUser(logins, userId)
  IN /\ \A p \in ProcIds : proc[p].pc = "idle"
     /\ IF id = NoDoc
          THEN /\ resp' = Response("lock", ErrUserNotFound, 0)
               /\ UNCHANGED logins
          ELSE /\ logins' = [logins EXCEPT ![id] = LockAccountDoc(@, now)]
               /\ resp' = Response("lock", ErrNone, 0)
     /\ UNCHANGED <<users, now, issued, proc>>

\* an unlock that also marks the record as logged in again
UnlockAccountDocLoggedIn(doc) ==
  [doc EXCEPT !.isPermanentlyLocked = FALSE, !.failedLoginAttempts = 0,
              !.lockLevel = 0, !.lockUntil = NullDate, !.isLoggedIn = TRUE]

\* the document after unlockAccount
UnlockAccountDoc(doc) ==
  [doc EXCEPT !.isPermanentlyLocked = FALSE, !.failedLoginAttempts = 0,
              !.lockLevel = 0, !.lockUntil = NullDate]

UnlockAccount(userId) ==
  LET id == FindLoginByUser(logins, userId)
  IN /\ \A p \in ProcIds : proc[p].pc = "idle"
     /\ IF id = NoDoc
          THEN /\ resp' = Response("unlock", ErrUserNotFound, 0)
               /\ UNCHANGED logins
          ELSE /\ logins' = [logins EXCEPT ![id] = UnlockAccountDoc(@)]
               /\ resp' = Response("unlock", ErrNone, 0)
     /\ UNCHANGED <<users, now, issued, proc>>

\* a changePassword that only replaces the hash
ChangePasswordDocKeepSessions(doc, newPassword, t) ==
  [doc EXCEPT !.password = BcryptHash(newPassword), !.isLoggedIn = FALSE]

\* the document after a successful changePassword: the new hash is saved,
\* then every device is logged out and the document saved again
ChangePasswordDoc(doc, newPassword, t) ==
  [LogoutAllDevicesDoc([doc EXCEPT !.password = BcryptHash(newPassword)], t)
     EXCEPT !.isLoggedIn = FALSE]

ChangePassword(userId, oldPassword, newPassword) ==
  LET id == FindLoginByUser(logins, userId)
      doc == logins[id]
  IN /\ \A p \in ProcIds : proc[p].pc = "idle"
     /\ IF id = NoDoc
          THEN /\ resp' = Response("changePassword", ErrUserNotFound, 0)
               /\ UNCHANGED logins
          ELSE IF ~ComparePassword(doc, oldPassword)
            THEN /\ resp' = Response("changePassword", ErrWrongOldPassword, 0)
                 /\ UNCHANGED logins
          ELSE /\ logins' = [logins EXCEPT ![id] =
                     ChangePasswordDoc(doc, newPassword, now)]
               /\ resp' = Response("changePassword", ErrNone, 0)
     /\ UNCHANGED <<users, now, issued, proc>>

\* the clock moves on to the later instant t
TickTo(t) ==
  /\ t > now
  /\ now' = t
  /\ UNCHANGED <<logins, users, issued, resp, proc>>

\* tokens a caller can present: those handed out, and a forged one
PresentableTokens == issued \cup {ForgedToken}

\* what a caller may type as loginId
LoginIdInputs == {"Alice", "U-1", "nobody"}

\* ------------------------------------------------------------------------
\* Session lifecycle: every session operation on two devices
\* ------------------------------------------------------------------------
SessionBounds == WithinBounds(logins, MaxFailedSession)

Tick == \E t \in SessionInstants : TickTo(t)
DoLogin ==
  /\ \E pw \in Passwords, d \in DeviceIds : Login("Alice", pw, d)
  /\ SessionBounds'
DoRefresh ==
  /\ \E tk \in PresentableTokens, d \in DeviceIds : RefreshTokens(tk, d)
  /\ SessionBounds'
DoLogout == \E d \in DeviceIds : Logout("u1", d)
DoLogoutAll == LogoutAllDevices("u1")
DoLock == LockAccount("u1")
DoUnlock == UnlockAccount("u1")
DoChangePassword ==
  \E old \in Passwords, new \in Passwords : ChangePassword("u1", old, new)

Next ==
  \/ Tick
  \/ DoLogin
  \/ DoRefresh
  \/ DoLogout
  \/ DoLogoutAll
  \/ DoLock
  \/ DoUnlock
  \/ DoChangePassword

Spec == Init /\ [][Next]_vars

\* ------------------------------------------------------------------------
\* Lockout state machine: logins from one device, administrative lock and
\* unlock of any user, and the clock
\* ------------------------------------------------------------------------
LockoutBounds == WithinBounds(logins, MaxFailed)

LockoutTick == \E t \in Instants : TickTo(t)
LockoutLogin ==
  /\ \E l \in LoginIdInputs, pw \in Passwords : Login(l, pw, "dev-A")
  /\ LockoutBounds'
LockoutLock == \E u \in UserIds : LockAccount(u)
LockoutUnlock == \E u \in UserIds : UnlockAccount(u)

NextLockout ==
  \/ LockoutTick
  \/ LockoutLogin
  \/ LockoutLock
  \/ LockoutUnlock

SpecLockout == Init /\ [][NextLockout]_vars

\* ------------------------------------------------------------------------
\* Properties of the lockout state machine (SpecLockout)
\* ------------------------------------------------------------------------
\* the record a login resolves to is under a temporary lock at the time
TemporarilyLocked(doc, t) ==
  /\ ~doc.isPermanentlyLocked
  /\ doc.lockUntil # NullDate
  /\ t < doc.lockUntil

\* what one login step does to the lock fields
C1_LoginStep(l, pw, d) ==
  LET id == ResolveLogin(logins, users, l)
      doc == logins[id]
      wrong == LockoutCheck(doc, now) = ErrNone /\ ~ComparePassword(doc, pw)
  IN (Login(l, pw, d) /\ id # NoDoc) =>
       /\ TemporarilyLocked(doc, now) =>
            /\ resp'.err = ErrTempLocked
            /\ resp'.remaining > 0
       /\ (wrong /\ doc.failedLoginAttempts + 1 = FailureThreshold) =>
            /\ logins'[id].failedLoginAttempts = FailureThreshold
            /\ logins'[id].lockLevel = 1
            /\ logins'[id].lockUntil = now + LockDurationMs
       /\ (wrong /\ doc.failedLoginAttempts + 1 < FailureThreshold) =>
            /\ logins'[id].lockLevel = 0
            /\ logins'[id].lockUntil = NullDate

\* a record is locked by failures exactly when the count has reached the
\* threshold, and a reported temporary lock has a positive remaining time
C1_LockFields ==
  /\ \A id \in DOMAIN logins :
       IF logins[id].failedLoginAttempts < FailureThreshold
         THEN logins[id].lockLevel = 0 /\ logins[id].lockUntil = NullDate
         ELSE logins[id].lockLevel = 1 /\ logins[id].lockUntil # NullDate
  /\ resp.err = ErrTempLocked => resp.remaining > 0

\* C1: from an unlocked record, the 5th consecutive wrong-password login (and
\* none before it) sets lockLevel = 1 and lockUntil = its time + 15 minutes,
\* and every login before lockUntil, whatever the password, is denied with
\* the temporary-lock error and a positive remaining time.
C1_LockAfterFiveFailures ==
  /\ []C1_LockFields
  /\ [][\A l \in LoginIdInputs, pw \in Passwords, d \in DeviceIds :
          C1_LoginStep(l, pw, d)]_vars

\* a login was just denied one minute before the lock set at 500 ms expires
C1_Witness ==
  \E id \in DOMAIN logins :
    /\ logins[id].failedLoginAttempts = FailureThreshold
    /\ logins[id].lockLevel = 1
    /\ logins[id].lockUntil = 500 + LockDurationMs
    /\ now = 900000
    /\ resp = LoginResponse(ErrTempLocked, 1, FailureThreshold)

\* what one step does while a record is permanently locked
C5_Step ==
  /\ \A l \in LoginIdInputs, pw \in Passwords, d \in DeviceIds :
       LET id == ResolveLogin(logins, users, l)
       IN (Login(l, pw, d) /\ id # NoDoc /\ logins[id].isPermanentlyLocked) =>
            /\ resp'.err = ErrPermLocked
            /\ logins' = logins
            /\ issued' = issued
  /\ \A id \in DOMAIN logins :
       (logins[id].isPermanentlyLocked /\ ~logins'[id].isPermanentlyLocked) =>
         UnlockAccount(logins[id].user)

\* the decision of login on a permanently locked record
C5_Decision ==
  \A l \in LoginIdInputs, pw \in Passwords :
    LET id == ResolveLogin(logins, users, l)
    IN (id # NoDoc /\ logins[id].isPermanentlyLocked) =>
         LoginOutcome(logins, users, l, pw, now) = ErrPermLocked

\* C5: while permanentlyLocked is true every login on the record is denied
\* with the permanent-lock error, whatever the password and the temporary
\* lock state, and only unlockAccount clears permanentlyLocked.
C5_PermanentLockDenies ==
  /\ []C5_Decision
  /\ [][C5_Step]_vars

\* a login was denied with the permanent-lock error while a temporary lock
\* was active as well
C5_Witness ==
  \E id \in DOMAIN logins :
    /\ logins[id].isPermanentlyLocked
    /\ logins[id].lockUntil # NullDate
    /\ now < logins[id].lockUntil
    /\ resp = LoginResponse(ErrPermLocked, 0, FailureThreshold)

\* C6: every successful login leaves failedAttempts = 0, lockLevel = 0 and
\* lockedUntil = null, whatever they were before.
C6_SuccessResetsLockout ==
  [][\A l \in LoginIdInputs, pw \in Passwords, d \in DeviceIds :
       LET id == ResolveLogin(logins, users, l)
       IN (Login(l, pw, d) /\ LoginOutcome(logins, users, l, pw, now) = ErrNone)
            => /\ resp'.err = ErrNone
               /\ logins'[id].failedLoginAttempts = 0
               /\ logins'[id].lockLevel = 0
               /\ logins'[id].lockUntil = NullDate]_vars

\* a login just succeeded on a record that had 5 failures and an expired
\* lock
C6_Witness ==
  \E id \in DOMAIN logins :
    /\ resp = LoginResponse(ErrNone, 0, FailureThreshold)
    /\ logins[id].failedLoginAttempts = 0
    /\ logins[id].lockLevel = 0
    /\ logins[id].lockUntil = NullDate
    /\ logins[id].isLoggedIn

\* ------------------------------------------------------------------------
\* Properties of the session lifecycle (Spec)
\* ------------------------------------------------------------------------
\* some device of doc named deviceId holds token as its current token
HoldsCurrent(doc, token, deviceId) ==
  \E i \in 1..Len(doc.loggedInDevices) :
    /\ doc.loggedInDevices[i].deviceId = deviceId
    /\ doc.loggedInDevices[i].refreshToken = token

\* the refreshTokens list of doc records token for deviceId
Recorded(doc, token, deviceId) ==
  \E k \in 1..Len(doc.refreshTokens) :
    /\ doc.refreshTokens[k].token = token
    /\ doc.refreshTokens[k].deviceId = deviceId

\* no device of doc verifies any token a caller can present
NoTokenVerifies(doc) ==
  \A tk \in PresentableTokens, d \in DeviceIds \cup {NoDevice} :
    ~VerifyRefreshTokenForDevice(doc, tk, d)

\* every device of doc is logged out
AllDevicesLoggedOut(doc) ==
  \A i \in 1..Len(doc.loggedInDevices) :
    doc.loggedInDevices[i].refreshToken = NullToken

\* both devices are known and their latest session was closed just now
BothDevicesClosedNow(doc) ==
  /\ Len(doc.loggedInDevices) = 2
  /\ \A i \in 1..2 :
       LET h == doc.loggedInDevices[i].loginHistory
       IN /\ h[Len(h)].logoutAt = now
          /\ h[Len(h)].loginAt < now

\* C3: after a successful changePassword every device's currentRefreshToken
\* is null, refreshTokens is empty and isLoggedIn is false, so no refresh
\* token issued before the change verifies for any device.
C3_ChangePasswordEndsSessions ==
  (resp.op = "changePassword" /\ resp.err = ErrNone) =>
    LET doc == logins[FindLoginByUser(logins, "u1")]
    IN /\ AllDevicesLoggedOut(doc)
       /\ doc.refreshTokens = << >>
       /\ ~doc.isLoggedIn
       /\ NoTokenVerifies(doc)

\* the password was just changed on a record with two sessions opened
\* earlier and tokens handed out for them
C3_Witness ==
  LET doc == logins[FindLoginByUser(logins, "u1")]
  IN /\ resp.op = "changePassword" /\ resp.err = ErrNone
     /\ doc.password = BcryptHash("p@ss1")
     /\ BothDevicesClosedNow(doc)
     /\ issued # {}

\* C4: lockAccount on a record with open device sessions sets
\* permanentlyLocked = true and isLoggedIn = false and every device's
\* currentRefreshToken to null, so no refresh token issued before the lock
\* verifies for any device.
C4_LockAccountEndsSessions ==
  (resp.op = "lock" /\ resp.err = ErrNone) =>
    LET doc == logins[FindLoginByUser(logins, "u1")]
    IN /\ doc.isPermanentlyLocked
       /\ ~doc.isLoggedIn
       /\ AllDevicesLoggedOut(doc)
       /\ NoTokenVerifies(doc)

\* the account was just locked with two sessions opened earlier
C4_Witness ==
  LET doc == logins[FindLoginByUser(logins, "u1")]
  IN /\ resp.op = "lock" /\ resp.err = ErrNone
     /\ doc.isPermanentlyLocked
     /\ BothDevicesClosedNow(doc)
     /\ issued # {}

\* C7: verifyForDevice(token, deviceId) is true exactly when deviceId names
\* a known device whose current refresh token is token; it is false for a
\* token the refreshTokens list records for the device but that is not its
\* current token, for an unknown device and for a logged-out device.
C7_VerifyIsCurrentTokenOnly ==
  \A id \in DOMAIN logins :
    \A tk \in PresentableTokens, d \in DeviceIds \cup {NoDevice} :
      LET doc == logins[id]
          i == FindDevice(doc.loggedInDevices, d)
      IN /\ VerifyRefreshTokenForDevice(doc, tk, d) <=> HoldsCurrent(doc, tk, d)
         /\ (i = 0 \/ doc.loggedInDevices[i].refreshToken = NullToken)
              => ~VerifyRefreshTokenForDevice(doc, tk, d)
         /\ (Recorded(doc, tk, d) /\ ~HoldsCurrent(doc, tk, d))
              => ~VerifyRefreshTokenForDevice(doc, tk, d)

\* a device holds a token while the list also records an older token for it,
\* and another device is logged out
C7_Witness ==
  \E id \in DOMAIN logins :
    \E tk \in issued, d \in DeviceIds, e \in DeviceIds :
      LET doc == logins[id]
      IN /\ Recorded(doc, tk, d)
         /\ ~HoldsCurrent(doc, tk, d)
         /\ \E tk2 \in issued : HoldsCurrent(doc, tk2, d)
         /\ HoldsCurrent(doc, NullToken, e)

\* the record of the identity a refresh token was issued to
RecordOfToken(tk) == FindLoginByUser(logins, tk.id)

\* tk is the live token of device d of the record of its identity
LiveFor(tk, d) ==
  /\ JwtVerifyRefresh(tk, now) = ErrNone
  /\ RecordOfToken(tk) # NoDoc
  /\ HoldsCurrent(logins[RecordOfToken(tk)], tk, d)

\* C2 (as claimed): a refresh of device d's current token T1 rotates it: d's
\* current token becomes the token returned, T1 no longer verifies for d and
\* a further refresh(T1, d) fails with the device-token-mismatch error.
C2_RotationIsSingleUse ==
  [][\A tk \in PresentableTokens, d \in DeviceIds :
       (RefreshTokens(tk, d) /\ LiveFor(tk, d)) =>
          LET doc == logins'[RecordOfToken(tk)]
          IN /\ \E t2 \in issued' : t2 # tk /\ HoldsCurrent(doc, t2, d)
             /\ ~VerifyRefreshTokenForDevice(doc, tk, d)
             /\ RefreshOutcome(logins', tk, d, now) = ErrDeviceToken]_vars

\* C8 (as claimed): refresh resolves the record by the identity claim of the
\* token, so a validly signed, unexpired token that is the current token of
\* device d of that identity's record is refreshed successfully and a new
\* refresh token is handed out.
C8_RefreshResolvesByIdentity ==
  [][\A tk \in PresentableTokens, d \in DeviceIds :
       (RefreshTokens(tk, d) /\ LiveFor(tk, d)) =>
          /\ resp'.err = ErrNone
          /\ Len(logins'[RecordOfToken(tk)].refreshTokens)
               = Len(logins[RecordOfToken(tk)].refreshTokens) + 1]_vars

\* ------------------------------------------------------------------------
\* document.save(): what a handler's save writes to the stored document.
\* A handler holds the document it read (orig) and its in-memory copy (doc);
\* save sends only the paths that were modified, as $set / $push, and the
\* database applies them to the stored document in one step.
\* ------------------------------------------------------------------------
ScalarPaths ==
  {"password", "failedLoginAttempts", "lockLevel", "lockUntil",
   "isPermanentlyLocked", "isLoggedIn"}

\* seq grew by push only
IsPush(before, after) ==
  /\ Len(after) > Len(before)
  /\ SubSeq(after, 1, Len(before)) = before

Pushed(before, after) == SubSeq(after, Len(before) + 1, Len(after))

\* loginHistory of a stored device after the handler's changes: pushed
\* entries are appended, logoutAt set in place is written by position
SaveHistory(stored, before, after) ==
  LET base == [j \in 1..Len(stored) |->
                 IF j <= Len(before) /\ j <= Len(after)
                    /\ after[j].logoutAt # before[j].logoutAt
                   THEN [stored[j] EXCEPT !.logoutAt = after[j].logoutAt]
                   ELSE stored[j]]
  IN IF Len(after) > Len(before) THEN base \o Pushed(before, after) ELSE base

\* a stored device after the handler's changes to the device at its position
SaveDevice(stored, before, after) ==
  [stored EXCEPT
     !.refreshToken = IF after.refreshToken # before.refreshToken
                        THEN after.refreshToken ELSE @,
     !.loginCount = IF after.loginCount # before.loginCount
                      THEN after.loginCount ELSE @,
     !.loginHistory = SaveHistory(@, before.loginHistory, after.loginHistory)]

\* the save touches an element of an array by position, pushes into a
\* nested array or replaces an array: the update is conditioned on the
\* version the handler read
SaveNeedsVersion(orig, doc) ==
  \/ \E i \in 1..Len(orig.loggedInDevices) :
       doc.loggedInDevices[i] # orig.loggedInDevices[i]
  \/ /\ doc.refreshTokens # orig.refreshTokens
     /\ ~IsPush(orig.refreshTokens, doc.refreshTokens)

\* the save pushes to an array or replaces one: the version is incremented
SaveIncrementsVersion(orig, doc) ==
  \/ doc.refreshTokens # orig.refreshTokens
  \/ Len(doc.loggedInDevices) > Len(orig.loggedInDevices)
  \/ \E i \in 1..Len(orig.loggedInDevices) :
       doc.loggedInDevices[i].loginHistory
         # orig.loggedInDevices[i].loginHistory
       /\ IsPush(orig.loggedInDevices[i].loginHistory,
                 doc.loggedInDevices[i].loginHistory)

\* the save is rejected (VersionError): the stored version moved on
SaveConflicts(stored, orig, doc) ==
  SaveNeedsVersion(orig, doc) /\ stored.version # orig.version

\* the stored document after an accepted save
SaveApply(stored, orig, doc) ==
  LET n == Len(orig.loggedInDevices)
      devs == [i \in 1..Len(stored.loggedInDevices) |->
                 IF i <= n
                   THEN SaveDevice(stored.loggedInDevices[i],
                                   orig.loggedInDevices[i],
                                   doc.loggedInDevices[i])
                   ELSE stored.loggedInDevices[i]]
              \o Pushed(orig.loggedInDevices, doc.loggedInDevices)
      rts == IF doc.refreshTokens = orig.refreshTokens THEN stored.refreshTokens
             ELSE IF IsPush(orig.refreshTokens, doc.refreshTokens)
               THEN stored.refreshTokens
                      \o Pushed(orig.refreshTokens, doc.refreshTokens)
             ELSE doc.refreshTokens
  IN [f \in DOMAIN stored |->
        IF f \in ScalarPaths
          THEN IF doc[f] # orig[f] THEN doc[f] ELSE stored[f]
        ELSE IF f = "refreshTokens" THEN rts
        ELSE IF f = "loggedInDevices" THEN devs
        ELSE IF f = "version"
          THEN IF SaveIncrementsVersion(orig, doc)
                 THEN stored.version + 1 ELSE stored.version
        ELSE stored[f]]

\* the handler's document after an accepted save
SavedLocal(orig, doc) ==
  [doc EXCEPT !.version =
     IF SaveIncrementsVersion(orig, doc) THEN orig.version + 1 ELSE orig.version]

\* ------------------------------------------------------------------------
\* Handlers running concurrently: each handler is a sequence of steps, one
\* per database operation or await, on its own in-memory document
\* ------------------------------------------------------------------------
\* a handler that has answered
\* the handlers other than p that are between their first step and their
\* answer
InFlight(p) ==
  {proc[q].op : q \in {r \in ProcIds : r # p /\ proc[r].pc \notin {"idle", "done"}}}

\* (token: the refresh token it was given or has signed; during: the
\* handlers in flight when it answered; at: the time of the answer)
Done(p, op, err, seen, dev, token) ==
  [op |-> op, pc |-> "done", err |-> err, seen |-> seen, dev |-> dev,
   token |-> token, during |-> InFlight(p), at |-> now]

\* a handler about to save doc (read as orig) and then continue with kont
Saving(op, id, orig, doc, kont, seen, dev, token) ==
  [op |-> op, pc |-> "save", id |-> id, orig |-> orig, doc |-> doc,
   kont |-> kont, seen |-> seen, dev |-> dev, token |-> token]

\* login, first step: find the record and apply the lockout check
LoginFind(p, loginId, password, deviceId) ==
  LET id == ResolveLogin(logins, users, loginId)
      doc == logins[id]
  IN /\ proc[p].pc = "idle"
     /\ IF id = NoDoc
          THEN /\ proc' = [proc EXCEPT ![p] = Done(p, "login", ErrInvalid, 0, deviceId, NullToken)]
               /\ resp' = LoginResponse(ErrInvalid, 0, 0)
          ELSE IF LockoutCheck(doc, now) # ErrNone
            THEN /\ proc' = [proc EXCEPT ![p] =
                       Done(p, "login", LockoutCheck(doc, now),
                            doc.failedLoginAttempts, deviceId, NullToken)]
                 /\ resp' = LoginResponse(LockoutCheck(doc, now),
                       IF LockoutCheck(doc, now) = ErrTempLocked
                         THEN RemainingMinutes(doc, now) ELSE 0,
                       doc.failedLoginAttempts)
          ELSE /\ proc' = [proc EXCEPT ![p] =
                     [op |-> "login", pc |-> "compare", id |-> id,
                      orig |-> doc, doc |-> doc, password |-> password,
                      seen |-> doc.failedLoginAttempts, dev |-> deviceId,
                      token |-> NullToken]]
               /\ UNCHANGED resp
     /\ UNCHANGED <<logins, users, now, issued>>

\* login, after comparePassword: count the failure on the in-memory
\* document and save it, or go on to read the user
LoginCompare(p) ==
  LET h == proc[p]
  IN /\ h.pc = "compare"
     /\ IF ~ComparePassword(h.doc, h.password)
          THEN proc' = [proc EXCEPT ![p] =
                 Saving("login", h.id, h.orig, FailedAttemptDoc(h.doc, now),
                        ErrBadPassword, h.seen, h.dev, NullToken)]
          ELSE proc' = [proc EXCEPT ![p].pc = "user"]
     /\ UNCHANGED <<logins, users, now, issued, resp>>

\* login, after User.findById: enforce the login flags, reset the failure
\* state, sign the tokens and bind the device on the in-memory document
LoginCheckUser(p) ==
  LET h == proc[p]
      err == IF h.doc.user \notin DOMAIN users THEN ErrNoAssocUser
             ELSE IF ~users[h.doc.user].canLogin \/ ~users[h.doc.user].isActive
               THEN ErrLoginDisabled
             ELSE ErrNone
  IN /\ h.pc = "user"
     /\ IF err # ErrNone
          THEN /\ proc' = [proc EXCEPT ![p] =
                     Done(p, "login", err, h.seen, h.dev, NullToken)]
               /\ resp' = LoginResponse(err, 0, h.seen)
          ELSE /\ proc' = [proc EXCEPT ![p] =
                     Saving("login", h.id, h.orig,
                            SuccessfulLoginDoc(h.doc, h.dev, now),
                            ErrNone, h.seen, h.dev,
                            JwtSignRefresh(h.doc, now))]
               /\ UNCHANGED resp
     /\ UNCHANGED <<logins, users, now, issued>>

\* refresh: verify the signature, find the record, check the device's token
\* and rotate it on the in-memory document
RefreshFind(p, token, deviceId) ==
  LET id == FindLoginById(logins, token.id)
      err == RefreshOutcome(logins, token, deviceId, now)
      doc == logins[id]
  IN /\ proc[p].pc = "idle"
     /\ IF err # ErrNone
          THEN /\ proc' = [proc EXCEPT ![p] =
                     Done(p, "refresh", err, 0, deviceId, token)]
               /\ resp' = Response("refresh", err, 0)
          ELSE /\ proc' = [proc EXCEPT ![p] =
                     Saving("refresh", id, doc,
                            GenerateRefreshTokenDoc(doc, deviceId, now),
                            ErrNone, 0, deviceId, JwtSignRefresh(doc, now))]
               /\ UNCHANGED resp
     /\ UNCHANGED <<logins, users, now, issued>>

\* logout: find the record and log the device out on the in-memory document
LogoutFind(p, userId, deviceId) ==
  LET id == FindLoginByUser(logins, userId)
      doc == logins[id]
  IN /\ proc[p].pc = "idle"
     /\ IF id = NoDoc
          THEN /\ proc' = [proc EXCEPT ![p] =
                     Done(p, "logout", ErrUserNotFound, 0, deviceId, NullToken)]
               /\ resp' = Response("logout", ErrUserNotFound, 0)
          ELSE IF ~LogoutDeviceOk(doc, deviceId)
            THEN /\ proc' = [proc EXCEPT ![p] =
                       Done(p, "logout", ErrDeviceNotFound, 0, deviceId, NullToken)]
                 /\ resp' = Response("logout", ErrDeviceNotFound, 0)
          ELSE /\ proc' = [proc EXCEPT ![p] =
                     Saving("logout", id, doc,
                            LogoutDeviceDoc(doc, deviceId, now),
                            "flag", 0, deviceId, NullToken)]
               /\ UNCHANGED resp
     /\ UNCHANGED <<logins, users, now, issued>>

\* logoutAll: find the record and log every device out on the in-memory
\* document
LogoutAllFind(p, userId) ==
  LET id == FindLoginByUser(logins, userId)
      doc == logins[id]
  IN /\ proc[p].pc = "idle"
     /\ IF id = NoDoc
          THEN /\ proc' = [proc EXCEPT ![p] =
                     Done(p, "logoutAll", ErrUserNotFound, 0, NoDevice, NullToken)]
               /\ resp' = Response("logoutAll", ErrUserNotFound, 0)
          ELSE /\ proc' = [proc EXCEPT ![p] =
                     Saving("logoutAll", id, doc, LogoutAllDevicesDoc(doc, now),
                            "flagOff", 0, NoDevice, NullToken)]
               /\ UNCHANGED resp
     /\ UNCHANGED <<logins, users, now, issued>>

\* changePassword: find the record, compare the old password and assign the
\* new one on the in-memory document
ChangePasswordFind(p, userId, oldPassword, newPassword) ==
  LET id == FindLoginByUser(logins, userId)
      doc == logins[id]
  IN /\ proc[p].pc = "idle"
     /\ IF id = NoDoc
          THEN /\ proc' = [proc EXCEPT ![p] =
                     Done(p, "changePassword", ErrUserNotFound, 0, NoDevice,
                          NullToken)]
               /\ resp' = Response("changePassword", ErrUserNotFound, 0)
          ELSE IF ~ComparePassword(doc, oldPassword)
            THEN /\ proc' = [proc EXCEPT ![p] =
                       Done(p, "changePassword", ErrWrongOldPassword, 0,
                            NoDevice, NullToken)]
                 /\ resp' = Response("changePassword", ErrWrongOldPassword, 0)
          ELSE /\ proc' = [proc EXCEPT ![p] =
                     Saving("changePassword", id, doc,
                            [doc EXCEPT !.password = BcryptHash(newPassword)],
                            "logoutAll", 0, NoDevice, NullToken)]
               /\ UNCHANGED resp
     /\ UNCHANGED <<logins, users, now, issued>>

\* what the handler does once its save is accepted: answer, or change the
\* in-memory document (log every device out, set isLoggedIn) and save again
AfterSave(p, h, saved) ==
  IF h.kont = "logoutAll"
    THEN Saving(h.op, h.id, saved, LogoutAllDevicesDoc(saved, now), "flagOff",
                h.seen, h.dev, h.token)
  ELSE IF h.kont = "resave"
    THEN Saving(h.op, h.id, saved, saved, ErrNone, h.seen, h.dev, h.token)
  ELSE IF h.kont = "flag"
    THEN Saving(h.op, h.id, saved, AfterLogoutFlag(saved), ErrNone, h.seen,
                h.dev, h.token)
  ELSE IF h.kont = "flagOff"
    THEN Saving(h.op, h.id, saved, [saved EXCEPT !.isLoggedIn = FALSE],
                ErrNone, h.seen, h.dev, h.token)
  ELSE Done(p, h.op, h.kont, h.seen, h.dev, h.token)

\* await document.save()
SaveDoc(p) ==
  LET h == proc[p]
      stored == logins[h.id]
      saved == SavedLocal(h.orig, h.doc)
      next == AfterSave(p, h, saved)
  IN /\ h.pc = "save"
     /\ IF SaveConflicts(stored, h.orig, h.doc)
          THEN /\ proc' = [proc EXCEPT ![p] =
                     Done(p, h.op, ErrVersion, h.seen, h.dev, h.token)]
               /\ resp' = [Response(h.op, ErrVersion, 0) EXCEPT !.seen = h.seen]
               /\ UNCHANGED <<logins, issued>>
          ELSE /\ logins' = [logins EXCEPT ![h.id] =
                     SaveApply(stored, h.orig, h.doc)]
               /\ proc' = [proc EXCEPT ![p] = next]
               /\ IF next.pc = "done"
                    THEN resp' = [Response(h.op, next.err, 0)
                                    EXCEPT !.seen = h.seen,
                                           !.forcePasswordChange =
                                             h.op = "login"
                                             /\ next.err = ErrNone
                                             /\ ForcePasswordChange(h.doc)]
                    ELSE UNCHANGED resp
               /\ issued' = IF next.pc = "done" /\ next.err = ErrNone
                                  /\ h.op \in {"login", "refresh"}
                               THEN issued \cup {h.token}
                               ELSE issued
     /\ UNCHANGED <<users, now>>

\* the record after k wrong passwords at time t
RECURSIVE AfterFailures(_, _, _)
AfterFailures(doc, k, t) ==
  IF k = 0 THEN doc ELSE AfterFailures(FailedAttemptDoc(doc, t), k - 1, t)

\* the record after successful logins from the devices devs at time t
RECURSIVE AfterLogins(_, _, _)
AfterLogins(doc, devs, t) ==
  IF devs = << >> THEN doc
  ELSE AfterLogins(SuccessfulLoginDoc(doc, Head(devs), t), Tail(devs), t)

\* the records the concurrent handlers start from: sessions opened at time 0
\* from none, one or both devices, followed by up to 4 wrong passwords
RaceDocs ==
  {AfterFailures(
     AfterLogins(NewUserLogin("l1", "u1", "alice", DefaultPassword), devs, 0),
     k, 0) :
   devs \in {<< >>, <<"dev-A">>, <<"dev-A", "dev-B">>},
   k \in 0..(FailureThreshold - 1)}

InitRace ==
  /\ \E doc \in RaceDocs :
       /\ logins = [id \in LoginDocIds |-> doc]
       /\ issued = {doc.refreshTokens[k].token : k \in 1..Len(doc.refreshTokens)}
  /\ users = SeedUsers
  /\ now = 900000
  /\ resp = Response("none", ErrNone, 0)
  /\ proc = [p \in ProcIds |-> IdleProc]

RaceLogin ==
  \E p \in ProcIds, pw \in Passwords, d \in DeviceIds :
    LoginFind(p, "Alice", pw, d)
RaceLoginCompare == \E p \in ProcIds : LoginCompare(p)
RaceLoginCheckUser == \E p \in ProcIds : LoginCheckUser(p)
RaceRefresh ==
  \E p \in ProcIds, tk \in PresentableTokens, d \in DeviceIds :
    RefreshFind(p, tk, d)
RaceLogout == \E p \in ProcIds, d \in DeviceIds : LogoutFind(p, "u1", d)
RaceLogoutAll == \E p \in ProcIds : LogoutAllFind(p, "u1")
RaceSave == \E p \in ProcIds : SaveDoc(p)

NextRace ==
  \/ RaceLogin
  \/ RaceLoginCompare
  \/ RaceLoginCheckUser
  \/ RaceRefresh
  \/ RaceLogout
  \/ RaceLogoutAll
  \/ RaceSave

\* two handlers, one request each, interleaved step by step
SpecRace == InitRace /\ [][NextRace]_vars

\* ------------------------------------------------------------------------
\* Concurrent handlers: lost updates and resurrected tokens
\* ------------------------------------------------------------------------
\* handler p has answered a login with "Invalid login credentials" after
\* reading the record with k failed attempts
WrongPasswordDone(p, k) ==
  /\ proc[p].pc = "done"
  /\ proc[p].op = "login"
  /\ proc[p].err = ErrInvalid
  /\ proc[p].seen = k

\* C9: when two concurrent wrong-password logins on the same record have
\* both passed the lockout check reading failedLoginAttempts = k and have
\* both completed, the record holds failedLoginAttempts = k + 2
C9_NoLostFailureCount ==
  \A k \in 0..FailureThreshold :
    (WrongPasswordDone("p1", k) /\ WrongPasswordDone("p2", k))
      => \A id \in DOMAIN logins : logins[id].failedLoginAttempts = k + 2

\* handler p has answered a refresh of token tk for device d
RefreshDone(p, tk, d) ==
  /\ proc[p].pc = "done"
  /\ proc[p].op = "refresh"
  /\ proc[p].token = tk
  /\ proc[p].dev = d

\* handler q has answered a successful logout of device d, or a successful
\* logoutAll
LogoutDone(q, d) ==
  /\ proc[q].pc = "done"
  /\ proc[q].err = ErrNone
  /\ \/ proc[q].op = "logout" /\ proc[q].dev = d
     \/ proc[q].op = "logoutAll"

\* device d of doc holds no refresh token and verifies none
NoLiveToken(doc, d) ==
  /\ \A i \in 1..Len(doc.loggedInDevices) :
       doc.loggedInDevices[i].deviceId = d
         => doc.loggedInDevices[i].refreshToken = NullToken
  /\ \A tk \in PresentableTokens : ~VerifyRefreshTokenForDevice(doc, tk, d)

\* C10: once a refresh(T, d) and a concurrent logout(d) or logoutAll on the
\* same record have both completed and the logout has succeeded, device d
\* has no live refresh token: it holds none and no token verifies for it
C10_LogoutNotUndoneByRefresh ==
  \A p \in ProcIds, q \in ProcIds, d \in DeviceIds, tk \in PresentableTokens :
    (RefreshDone(p, tk, d) /\ LogoutDone(q, d))
      => \A id \in DOMAIN logins : NoLiveToken(logins[id], d)

\* a refresh of the token device dev-A held was answered while a logout of
\* dev-A was in flight, and the logout then succeeded
C10_Witness ==
  \E tk \in issued :
    /\ RefreshDone("p1", tk, "dev-A")
    /\ proc["p1"].during = {"logout"}
    /\ JwtVerifyRefresh(tk, now) = ErrNone
    /\ LogoutDone("p2", "dev-A")
    /\ proc["p2"].op = "logout"
    /\ resp.op = "logout"
    /\ \A id \in DOMAIN logins :
         /\ Recorded(logins[id], tk, "dev-A")
         /\ HoldsCurrent(logins[id], NullToken, "dev-A")

\* ------------------------------------------------------------------------
\* Device registry: logins, logout and logoutAll on two devices, and the
\* clock; what logout and logoutAll change and what they keep
\* ------------------------------------------------------------------------
DeviceInputs == DeviceIds \cup {NoDevice}

DevicesLogin ==
  /\ \E pw \in Passwords, d \in DeviceIds : Login("Alice", pw, d)
  /\ SessionBounds'
DevicesLogout == \E d \in DeviceInputs : Logout("u1", d)
DevicesLogoutAll == LogoutAllDevices("u1")
DevicesTick == \E t \in SessionInstants : TickTo(t)

NextDevices ==
  \/ DevicesLogin
  \/ DevicesLogout
  \/ DevicesLogoutAll
  \/ DevicesTick

SpecDevices == Init /\ [][NextDevices]_vars

\* the history hist with its last entry closed at t if it was open
ClosedAt(hist, t) ==
  [k \in 1..Len(hist) |->
     IF k = Len(hist) /\ hist[k].logoutAt = NullDate
       THEN [hist[k] EXCEPT !.logoutAt = t]
       ELSE hist[k]]

\* what one logout step does to the devices of the record
C11_LogoutStep(d) ==
  LET id == FindLoginByUser(logins, "u1")
      devs == logins[id].loggedInDevices
      after == logins'[id].loggedInDevices
      i == FindDevice(devs, d)
  IN Logout("u1", d) =>
       IF i # 0
         THEN /\ resp'.err = ErrNone
              /\ Len(after) = Len(devs)
              /\ after[i].refreshToken = NullToken
              /\ after[i].loginHistory = ClosedAt(devs[i].loginHistory, now)
              /\ \A j \in 1..Len(devs) : j # i => after[j] = devs[j]
         ELSE /\ resp'.err = ErrDeviceNotFound
              /\ logins' = logins

\* C11: logoutDevice(d) on a known device sets d's refreshToken to null and
\* sets logoutAt on d's most recent history entry if it was unset, leaving
\* every other device unchanged; on an unknown device the logout fails with
\* the device-not-found error and the record is unchanged.
C11_LogoutDeviceEffect ==
  [][\A d \in DeviceInputs : C11_LogoutStep(d)]_vars

\* dev-A was just logged out, its open entry closed now, while dev-B still
\* holds its token
C11_Witness ==
  \E id \in DOMAIN logins :
    LET devs == logins[id].loggedInDevices
    IN /\ resp = Response("logout", ErrNone, 0)
       /\ Len(devs) = 2
       /\ devs[1].deviceId = "dev-A"
       /\ devs[1].refreshToken = NullToken
       /\ devs[1].loginHistory[Len(devs[1].loginHistory)].logoutAt = now
       /\ now > 0
       /\ devs[2].refreshToken # NullToken
       /\ devs[2].loginHistory[Len(devs[2].loginHistory)].logoutAt = NullDate

\* the login times of a history
LoginTimes(hist) == [k \in 1..Len(hist) |-> hist[k].loginAt]

\* C12: logoutAll sets every device's refreshToken to null and empties
\* refreshTokens, removes no device, and leaves each device's deviceId,
\* loginCount and the number and loginAt values of its history unchanged.
C12_LogoutAllKeepsDevices ==
  [][LET id == FindLoginByUser(logins, "u1")
         devs == logins[id].loggedInDevices
         after == logins'[id].loggedInDevices
     IN LogoutAllDevices("u1") =>
          /\ resp'.err = ErrNone
          /\ logins'[id].refreshTokens = << >>
          /\ Len(after) = Len(devs)
          /\ \A i \in 1..Len(devs) :
               /\ after[i].refreshToken = NullToken
               /\ after[i].deviceId = devs[i].deviceId
               /\ after[i].loginCount = devs[i].loginCount
               /\ LoginTimes(after[i].loginHistory)
                    = LoginTimes(devs[i].loginHistory)]_vars

\* logoutAll has just closed two devices, one of them with two logins
C12_Witness ==
  \E id \in DOMAIN logins :
    LET devs == logins[id].loggedInDevices
    IN /\ resp = Response("logoutAll", ErrNone, 0)
       /\ logins[id].refreshTokens = << >>
       /\ Len(devs) = 2
       /\ \A i \in 1..2 :
            /\ devs[i].refreshToken = NullToken
            /\ devs[i].loginHistory[Len(devs[i].loginHistory)].logoutAt = now
       /\ \E i \in 1..2 :
            devs[i].loginCount = 2 /\ Len(devs[i].loginHistory) = 2

\* ------------------------------------------------------------------------
\* Lockout state machine: expiry of the temporary lock, and what a caller
\* can tell from a failed login
\* ------------------------------------------------------------------------
\* the identity behind doc is allowed to authenticate
MayLogin(doc) ==
  /\ doc.user \in DOMAIN users
  /\ users[doc.user].canLogin
  /\ users[doc.user].isActive

\* C13: once the time has passed lockUntil, a login with the correct
\* password on a record that is not permanently locked and whose identity
\* may authenticate succeeds although lockLevel and lockUntil are still
\* set, and that login clears lockLevel and lockUntil.
C13_ExpiredLockIsLazy ==
  [][\A l \in LoginIdInputs, pw \in Passwords, d \in DeviceIds :
       LET id == ResolveLogin(logins, users, l)
           doc == logins[id]
       IN (/\ Login(l, pw, d)
           /\ id # NoDoc
           /\ ~doc.isPermanentlyLocked
           /\ doc.lockLevel > 0
           /\ doc.lockUntil # NullDate
           /\ now > doc.lockUntil
           /\ ComparePassword(doc, pw)
           /\ MayLogin(doc))
            => /\ resp'.err = ErrNone
               /\ logins'[id].lockLevel = 0
               /\ logins'[id].lockUntil = NullDate
               /\ logins'[id].isLoggedIn]_vars

\* a week after the lock was set, a login has just succeeded on the record
\* that still carried its 5 failures, and no lock field is left
C13_Witness ==
  \E id \in DOMAIN logins :
    /\ now = 604800000
    /\ resp.op = "login"
    /\ resp.err = ErrNone
    /\ resp.seen = FailureThreshold
    /\ ~logins[id].isPermanentlyLocked
    /\ logins[id].lockLevel = 0
    /\ logins[id].lockUntil = NullDate
    /\ HoldsCurrent(logins[id], JwtSignRefresh(logins[id], now), "dev-A")

\* C14: on an unlocked record a login with a wrong password is answered
\* with exactly the error of a login whose handle resolves to no record.
C14_WrongPasswordLooksUnknown ==
  [][\A l \in LoginIdInputs, pw \in Passwords, d \in DeviceIds :
       LET id == ResolveLogin(logins, users, l)
           doc == logins[id]
       IN (/\ Login(l, pw, d)
           /\ id # NoDoc
           /\ LockoutCheck(doc, now) = ErrNone
           /\ ~ComparePassword(doc, pw))
            => \A l2 \in LoginIdInputs, pw2 \in Passwords :
                 ResolveLogin(logins, users, l2) = NoDoc
                   => /\ resp'.err = LoginOutcome(logins, users, l2, pw2, now)
                      /\ resp'.remaining = 0]_vars

\* a wrong password has just been counted as the third failure and answered
\* with the invalid-credentials error
C14_Witness ==
  \E id \in DOMAIN logins :
    /\ resp = LoginResponse(ErrInvalid, 0, 2)
    /\ logins[id].failedLoginAttempts = 3
    /\ logins[id].lockUntil = NullDate

\* ------------------------------------------------------------------------
\* Access flags: an administrator activates and deactivates users while
\* they log in
\* ------------------------------------------------------------------------
\* toggleIsActive: deactivating also disables login, activating leaves
\* canLogin as it is
ToggleIsActive(userId, enable) ==
  /\ \A p \in ProcIds : proc[p].pc = "idle"
  /\ IF userId \notin DOMAIN users
       THEN /\ resp' = Response("toggleIsActive", ErrUserNotFound, 0)
            /\ UNCHANGED users
       ELSE /\ users' = [users EXCEPT ![userId] =
                 IF enable THEN [@ EXCEPT !.isActive = TRUE]
                 ELSE [@ EXCEPT !.isActive = FALSE, !.canLogin = FALSE]]
            /\ resp' = Response("toggleIsActive", ErrNone, 0)
  /\ UNCHANGED <<logins, now, issued, proc>>

AccessLogin ==
  /\ \E l \in LoginIdInputs, pw \in Passwords, d \in DeviceIds \cup {NoDevice} :
       Login(l, pw, d)
  /\ LockoutBounds'
AccessToggleIsActive ==
  \E u \in UserIds, enable \in BOOLEAN : ToggleIsActive(u, enable)
AccessTick == \E t \in SessionInstants : TickTo(t)

NextAccess ==
  \/ AccessLogin
  \/ AccessToggleIsActive
  \/ AccessTick

SpecAccess == Init /\ [][NextAccess]_vars

\* C15: a login with the correct password for an identity that may not
\* authenticate (canLogin or isActive false) fails with the login-disabled
\* error and leaves the credential record unchanged: no failure is counted,
\* no lock applied, no token issued and no device bound.
C15_DisabledLoginChangesNothing ==
  [][\A l \in LoginIdInputs, pw \in Passwords, d \in DeviceIds \cup {NoDevice} :
       LET id == ResolveLogin(logins, users, l)
           doc == logins[id]
       IN (/\ Login(l, pw, d)
           /\ id # NoDoc
           /\ LockoutCheck(doc, now) = ErrNone
           /\ ComparePassword(doc, pw)
           /\ doc.user \in DOMAIN users
           /\ ~MayLogin(doc))
            => /\ resp'.err = ErrLoginDisabled
               /\ logins' = logins
               /\ issued' = issued]_vars

\* the deactivated user has just been refused with the login-disabled error
\* on a record that keeps its two earlier failures and binds no device
C15_Witness ==
  \E id \in DOMAIN logins :
    /\ resp = LoginResponse(ErrLoginDisabled, 0, 2)
    /\ ~users[logins[id].user].isActive
    /\ ~users[logins[id].user].canLogin
    /\ logins[id].failedLoginAttempts = 2
    /\ logins[id].lockUntil = NullDate
    /\ logins[id].loggedInDevices = << >>
    /\ logins[id].refreshTokens = << >>
    /\ issued = {}

\* ------------------------------------------------------------------------
\* Session lifecycle: refresh with a token that is not the device's own
\* ------------------------------------------------------------------------
\* C16: a refresh whose token is validly signed but is not the current token
\* of the given device fails with the device-token-mismatch error, which is
\* not the invalid-credentials error, and leaves the record unchanged
\* (failedLoginAttempts, lockLevel and lockUntil included).
C16_MismatchIsItsOwnError ==
  [][\A tk \in PresentableTokens, d \in DeviceIds :
       LET id == RecordOfToken(tk)
       IN (/\ RefreshTokens(tk, d)
           /\ JwtVerifyRefresh(tk, now) = ErrNone
           /\ id # NoDoc
           /\ ~HoldsCurrent(logins[id], tk, d))
            => /\ resp'.err = ErrDeviceToken
               /\ ErrDeviceToken # ErrInvalid
               /\ logins' = logins]_vars

\* ------------------------------------------------------------------------
\* Token registry: every session operation, revocation included, with the
\* device id a client may leave empty, all within one second
\* ------------------------------------------------------------------------
RegistryLogin ==
  /\ \E pw \in Passwords, d \in DeviceInputs : Login("Alice", pw, d)
  /\ SessionBounds'
RegistryRefresh ==
  /\ \E tk \in PresentableTokens, d \in DeviceInputs : RefreshTokens(tk, d)
  /\ SessionBounds'
RegistryLogout == \E d \in DeviceInputs : Logout("u1", d)
RegistryLogoutAll == LogoutAllDevices("u1")
RegistryRevoke == \E tk \in PresentableTokens : RevokeToken("u1", tk)
RegistryLock == LockAccount("u1")
RegistryUnlock == UnlockAccount("u1")
RegistryChangePassword ==
  \E old \in Passwords, new \in Passwords : ChangePassword("u1", old, new)

NextRegistry ==
  \/ RegistryLogin
  \/ RegistryRefresh
  \/ RegistryLogout
  \/ RegistryLogoutAll
  \/ RegistryRevoke
  \/ RegistryLock
  \/ RegistryUnlock
  \/ RegistryChangePassword

SpecRegistry == Init /\ [][NextRegistry]_vars

\* C17: in every state reached by login, refresh, logout, logoutAll,
\* revokeToken, changePassword, lockAccount and unlockAccount, isLoggedIn is
\* true if and only if some device of the record holds a refresh token.
C17_LoggedInIffLiveDevice ==
  \A id \in DOMAIN logins :
    logins[id].isLoggedIn
      <=> \E i \in 1..Len(logins[id].loggedInDevices) :
            logins[id].loggedInDevices[i].refreshToken # NullToken

\* C18: in every state reached by those operations, the refresh token a
\* device holds is the token of some entry of the refreshTokens list.
C18_CurrentTokenIsListed ==
  \A id \in DOMAIN logins :
    \A i \in 1..Len(logins[id].loggedInDevices) :
      logins[id].loggedInDevices[i].refreshToken # NullToken
        => \E k \in 1..Len(logins[id].refreshTokens) :
             logins[id].refreshTokens[k].token
               = logins[id].loggedInDevices[i].refreshToken

\* C19: revoking a token that matches no entry of refreshTokens fails with
\* the token-not-found error and leaves the record unchanged.
C19_RevokeUnknownTokenFails ==
  [][\A tk \in PresentableTokens :
       LET id == FindLoginByUser(logins, "u1")
       IN (/\ RevokeToken("u1", tk)
           /\ id # NoDoc
           /\ \A k \in 1..Len(logins[id].refreshTokens) :
                logins[id].refreshTokens[k].token # tk)
            => /\ resp'.err = ErrTokenNotFound
               /\ logins' = logins]_vars

\* ------------------------------------------------------------------------
\* Administrative lock and unlock, one request after the other
\* ------------------------------------------------------------------------
\* lockAccount: find the record, set the flags and log every device out on
\* the in-memory document; logoutAllDevices saves it and the handler saves
\* once more
LockFind(p, userId) ==
  LET id == FindLoginByUser(logins, userId)
      doc == logins[id]
  IN /\ proc[p].pc = "idle"
     /\ IF id = NoDoc
          THEN /\ proc' = [proc EXCEPT ![p] =
                     Done(p, "lock", ErrUserNotFound, 0, NoDevice, NullToken)]
               /\ resp' = Response("lock", ErrUserNotFound, 0)
          ELSE /\ proc' = [proc EXCEPT ![p] =
                     Saving("lock", id, doc, LockAccountDoc(doc, now),
                            "resave", 0, NoDevice, NullToken)]
               /\ UNCHANGED resp
     /\ UNCHANGED <<logins, users, now, issued>>

\* unlockAccount: find the record and clear the lock state on the in-memory
\* document
UnlockFind(p, userId) ==
  LET id == FindLoginByUser(logins, userId)
      doc == logins[id]
  IN /\ proc[p].pc = "idle"
     /\ IF id = NoDoc
          THEN /\ proc' = [proc EXCEPT ![p] =
                     Done(p, "unlock", ErrUserNotFound, 0, NoDevice, NullToken)]
               /\ resp' = Response("unlock", ErrUserNotFound, 0)
          ELSE /\ proc' = [proc EXCEPT ![p] =
                     Saving("unlock", id, doc, UnlockAccountDoc(doc),
                            ErrNone, 0, NoDevice, NullToken)]
               /\ UNCHANGED resp
     /\ UNCHANGED <<logins, users, now, issued>>

\* the records the administrator meets: no session or one open on each
\* device since time 0, and no failure, some, or enough for a temporary lock
AdminDocs ==
  {AfterFailures(
     AfterLogins(NewUserLogin("l1", "u1", "alice", DefaultPassword), devs, 0),
     k, 0) :
   devs \in {<< >>, <<"dev-A", "dev-B">>},
   k \in {0, 2, FailureThreshold}}

InitAdmin ==
  /\ \E doc \in AdminDocs :
       /\ logins = [id \in LoginDocIds |-> doc]
       /\ issued = {doc.refreshTokens[k].token : k \in 1..Len(doc.refreshTokens)}
  /\ users = SeedUsers
  /\ now = 500
  /\ resp = Response("none", ErrNone, 0)
  /\ proc = [p \in ProcIds |-> IdleProc]

\* a request starts when no other is in flight
AdminLock == \E p \in ProcIds : InFlight(p) = {} /\ LockFind(p, "u1")
AdminUnlock == \E p \in ProcIds : InFlight(p) = {} /\ UnlockFind(p, "u1")
AdminSave == \E p \in ProcIds : SaveDoc(p)
AdminTick == \E t \in Instants : TickTo(t)

NextAdmin ==
  \/ AdminLock
  \/ AdminUnlock
  \/ AdminSave
  \/ AdminTick

SpecAdmin == InitAdmin /\ [][NextAdmin]_vars

\* the fields of the records that lock and unlock are about
AdminView(db) ==
  [id \in DOMAIN db |->
     [isPermanentlyLocked |-> db[id].isPermanentlyLocked,
      failedLoginAttempts |-> db[id].failedLoginAttempts,
      lockLevel |-> db[id].lockLevel,
      lockUntil |-> db[id].lockUntil,
      isLoggedIn |-> db[id].isLoggedIn,
      devices |-> [i \in 1..Len(db[id].loggedInDevices) |->
         [refreshToken |-> db[id].loggedInDevices[i].refreshToken,
          logoutAts |->
            [k \in 1..Len(db[id].loggedInDevices[i].loginHistory) |->
               db[id].loggedInDevices[i].loginHistory[k].logoutAt]]]]]

\* handler q takes a step of the operation that handler p has completed
\* just before it
RepeatsStep(p, q) ==
  /\ p # q
  /\ proc[p].pc = "done"
  /\ proc[p].err = ErrNone
  /\ proc[p].op \in {"lock", "unlock"}
  /\ proc'[q] # proc[q]
  /\ proc'[q].op = proc[p].op

\* C20: lockAccount and unlockAccount are idempotent on an existing record:
\* applied a second time in a row, the operation leaves isPermanentlyLocked,
\* failedLoginAttempts, lockLevel, lockUntil, isLoggedIn, every device's
\* refreshToken and every history entry's logoutAt as the first left them.
C20_LockUnlockIdempotent ==
  [][\A p \in ProcIds, q \in ProcIds :
       RepeatsStep(p, q) => AdminView(logins') = AdminView(logins)]_vars

\* lockAccount was answered at 900000 and again a week later, and the two
\* sessions it closed still carry the time of the first
C20_Witness ==
  \E id \in DOMAIN logins :
    /\ proc["p1"].pc = "done" /\ proc["p1"].op = "lock"
    /\ proc["p1"].err = ErrNone /\ proc["p1"].at = 900000
    /\ proc["p2"].pc = "done" /\ proc["p2"].op = "lock"
    /\ proc["p2"].err = ErrNone /\ proc["p2"].at = 604800000
    /\ logins[id].isPermanentlyLocked
    /\ ~logins[id].isLoggedIn
    /\ Len(logins[id].loggedInDevices) = 2
    /\ \A i \in 1..2 :
         /\ logins[id].loggedInDevices[i].refreshToken = NullToken
         /\ logins[id].loggedInDevices[i].loginHistory[1].logoutAt = 900000

\* ------------------------------------------------------------------------
\* The lock-account and unlock-account routes: middleware, then controller
\* ------------------------------------------------------------------------
\* ACCESS_TOKEN_EXPIRY, "15m", in seconds
AccessExpirySec == 900

\* the roles verifyAdmin lets through
AdminRoles == {"admin", "super_admin", "enterprise_admin"}

ErrAccessInvalid == "invalid signature"
ErrAccessExpired == "Access token has expired"
ErrLoginIsDisabled == "User login is disabled"
ErrBlocked == "User account is blocked"
ErrAdminRequired == "Admin access required"
ErrUserIdRequired == "User ID is required"

\* the access token login signs together with the refresh token tk (the
\* same identity and the same second; the username claim is not read by
\* the middleware and is left out)
AccessTokenWith(tk) == [id |-> tk.id, iat |-> tk.iat, sig |-> "access"]

\* access tokens a caller can present: those handed out and a forged one
AccessInputs ==
  {AccessTokenWith(tk) : tk \in issued} \cup {ForgedToken}

\* verifyJWT: the error it answers with, ErrNone when it calls next()
VerifyJWT(udb, token, t) ==
  IF token.sig # "access" THEN ErrAccessInvalid
  ELSE IF t \div MsPerSecond >= token.iat + AccessExpirySec
    THEN ErrAccessExpired
  ELSE IF token.id \notin DOMAIN udb THEN ErrUserNotFound
  ELSE IF ~udb[token.id].canLogin THEN ErrLoginIsDisabled
  ELSE IF udb[token.id].isBlocked THEN ErrBlocked
  ELSE ErrNone

\* verifyAdmin (exported by the middleware; no route of the auth router
\* uses it)
VerifyAdmin(udb, token) ==
  IF udb[token.id].role \notin AdminRoles THEN ErrAdminRequired ELSE ErrNone

\* a request stopped by the middleware or the controller
Refused(op, err) ==
  /\ \A p \in ProcIds : proc[p].pc = "idle"
  /\ resp' = Response(op, err, 0)
  /\ UNCHANGED <<logins, users, now, issued, proc>>

\* POST /lock-account: verifyJWT, lockAccountController
LockAccountRoute(token, userId) ==
  IF VerifyJWT(users, token, now) # ErrNone
    THEN Refused("lock", VerifyJWT(users, token, now))
  ELSE IF userId = ""
    THEN Refused("lock", ErrUserIdRequired)
  ELSE LockAccount(userId)

\* POST /unlock-account: verifyJWT, unlockAccountController
UnlockAccountRoute(token, userId) ==
  IF VerifyJWT(users, token, now) # ErrNone
    THEN Refused("unlock", VerifyJWT(users, token, now))
  ELSE IF userId = ""
    THEN Refused("unlock", ErrUserIdRequired)
  ELSE UnlockAccount(userId)

TargetInputs == UserIds \cup {""}

RoutesLogin ==
  /\ \E pw \in Passwords : Login("Alice", pw, "dev-A")
  /\ LockoutBounds'
RoutesLock ==
  \E tk \in AccessInputs, u \in TargetInputs : LockAccountRoute(tk, u)
RoutesUnlock ==
  \E tk \in AccessInputs, u \in TargetInputs : UnlockAccountRoute(tk, u)
RoutesTick == \E t \in Instants : TickTo(t)

NextRoutes ==
  \/ RoutesLogin
  \/ RoutesLock
  \/ RoutesUnlock
  \/ RoutesTick

SpecRoutes == Init /\ [][NextRoutes]_vars

\* the caller the access token authenticates, and it has no admin role
NonAdminCaller(token) ==
  /\ VerifyJWT(users, token, now) = ErrNone
  /\ users[token.id].role \notin AdminRoles

\* C21: a lock-account or unlock-account request made by an authenticated
\* caller whose role is not an admin role changes no record's
\* isPermanentlyLocked flag, lock counters or device sessions.
C21_LockingIsAdminGated ==
  [][\A tk \in AccessInputs, u \in TargetInputs :
       (/\ NonAdminCaller(tk)
        /\ LockAccountRoute(tk, u) \/ UnlockAccountRoute(tk, u))
         => AdminView(logins') = AdminView(logins)]_vars

\* ------------------------------------------------------------------------
\* User administration: creating users, granting and withdrawing the login
\* capability, deactivating, soft-deleting and restoring
\* ------------------------------------------------------------------------
NoLoginId == ""
NewUserIds == {"u3"}
LoginIdPool == {"l1", "l2", "l3"}
NameInputs == {"Alice", "Al Ice"}
LoginIdPayloads == {NoLoginId, "Al Ice", "alice1"}
ErrInactive == "Cannot enable login for inactive user"

\* payload.userId of the users created
PayloadUserId(u) == CASE u = "u3" -> "U-3" [] OTHER -> "U-0"

\* String.prototype.split(/\s+/) on the lower-cased names
SplitWords(s) ==
  CASE s = "al ice" -> <<"al", "ice">>
    [] OTHER -> <<s>>

\* replace(/[^a-z0-9@._\-]/g, "") on the lower-cased inputs
Sanitize(s) ==
  CASE s = "al ice" -> "alice"
    [] OTHER -> s

\* the base of the username: the given loginId, else first.last of the
\* name, else the user's id
BaseUsername(userRef, userName, providedLoginId) ==
  LET parts == SplitWords(ToLowerCase(userName))
  IN Sanitize(
       IF providedLoginId # NoLoginId THEN ToLowerCase(providedLoginId)
       ELSE IF userName # "" THEN
         IF Len(parts) = 1 THEN parts[1]
         ELSE parts[1] \o "." \o parts[Len(parts)]
       ELSE ToLowerCase(userRef))

\* UserLogin.findOne({username}) finds a document
UsernameTaken(db, username) ==
  \E id \in DOMAIN db : db[id].username = username

\* a search for a free username that tries the suffix 1 only
FreeUsernameOnce(db, base, suffix) ==
  IF UsernameTaken(db, base) THEN base \o ToString(1) ELSE base

\* the while loop of createUserLoginCredentials, entered with suffix
RECURSIVE FreeUsername(_, _, _)
FreeUsername(db, base, suffix) ==
  LET username == IF suffix = 0 THEN base ELSE base \o ToString(suffix)
  IN IF UsernameTaken(db, username)
       THEN FreeUsername(db, base, suffix + 1)
       ELSE username

\* the ObjectIds a new document can get: used by no stored document and
\* carried by no token
FreshLoginIds(db, tokens) ==
  {id \in LoginIdPool : id \notin DOMAIN db /\ \A tk \in tokens : tk.id # id}

\* the ObjectId of the next document: ids are opaque, one fresh id stands
\* for all
FreshLoginId(db, tokens) == CHOOSE id \in FreshLoginIds(db, tokens) : TRUE

\* createUserLoginCredentials: the collection with the new document
CreateUserLoginCredentials(db, id, userRef, userName, providedLoginId) ==
  [x \in DOMAIN db \cup {id} |->
     IF x = id
       THEN NewUserLogin(id, userRef,
              FreeUsername(db, BaseUsername(userRef, userName,
                                            providedLoginId), 0),
              DefaultPassword)
       ELSE db[x]]

\* UserLogin.deleteOne({user})
DeleteLoginOfUser(db, userRef) ==
  LET id == FindLoginByUser(db, userRef)
  IN [x \in DOMAIN db \ {id} |-> db[x]]

\* createUser: the flags come from the payload, credentials are created
\* when canLogin is true
CreateUser(u, userName, canLogin, isActive, loginId) ==
  /\ \A p \in ProcIds : proc[p].pc = "idle"
  /\ u \notin DOMAIN users
  /\ users' = [x \in DOMAIN users \cup {u} |->
                 IF x = u
                   THEN [userId |-> PayloadUserId(u), email |-> "",
                         canLogin |-> canLogin, isActive |-> isActive,
                         role |-> "user", name |-> userName,
                         isBlocked |-> FALSE]
                   ELSE users[x]]
  /\ IF canLogin
       THEN /\ FreshLoginIds(logins, issued) # {}
            /\ logins' = CreateUserLoginCredentials(
                           logins, FreshLoginId(logins, issued), u, userName,
                           loginId)
       ELSE UNCHANGED logins
  /\ resp' = Response("createUser", ErrNone, 0)
  /\ UNCHANGED <<now, issued, proc>>

\* toggleCanLogin: enabling is refused for an inactive user and creates
\* credentials when there are none; disabling deletes them
ToggleCanLogin(u, enable, loginId) ==
  /\ \A p \in ProcIds : proc[p].pc = "idle"
  /\ IF u \notin DOMAIN users
       THEN /\ resp' = Response("toggleCanLogin", ErrUserNotFound, 0)
            /\ UNCHANGED <<users, logins>>
     ELSE IF enable /\ ~users[u].isActive
       THEN /\ resp' = Response("toggleCanLogin", ErrInactive, 0)
            /\ UNCHANGED <<users, logins>>
     ELSE IF enable
       THEN /\ IF FindLoginByUser(logins, u) = NoDoc
                 THEN /\ FreshLoginIds(logins, issued) # {}
                      /\ logins' = CreateUserLoginCredentials(
                                     logins, FreshLoginId(logins, issued),
                                     u, users[u].name, loginId)
                 ELSE UNCHANGED logins
            /\ users' = [users EXCEPT ![u].canLogin = TRUE]
            /\ resp' = Response("toggleCanLogin", ErrNone, 0)
     ELSE /\ logins' = DeleteLoginOfUser(logins, u)
          /\ users' = [users EXCEPT ![u].canLogin = FALSE]
          /\ resp' = Response("toggleCanLogin", ErrNone, 0)
  /\ UNCHANGED <<now, issued, proc>>

\* softDeleteUser
SoftDeleteUser(u) ==
  /\ \A p \in ProcIds : proc[p].pc = "idle"
  /\ IF u \notin DOMAIN users
       THEN /\ resp' = Response("softDeleteUser", ErrUserNotFound, 0)
            /\ UNCHANGED users
       ELSE /\ users' = [users EXCEPT ![u].isActive = FALSE,
                                      ![u].canLogin = FALSE,
                                      ![u].isBlocked = TRUE]
            /\ resp' = Response("softDeleteUser", ErrNone, 0)
  /\ UNCHANGED <<logins, now, issued, proc>>

\* restoreUser
RestoreUser(u) ==
  /\ \A p \in ProcIds : proc[p].pc = "idle"
  /\ IF u \notin DOMAIN users
       THEN /\ resp' = Response("restoreUser", ErrUserNotFound, 0)
            /\ UNCHANGED users
       ELSE /\ users' = [users EXCEPT ![u].isActive = TRUE,
                                      ![u].isBlocked = FALSE]
            /\ resp' = Response("restoreUser", ErrNone, 0)
  /\ UNCHANGED <<logins, now, issued, proc>>

AllUserIds == UserIds \cup NewUserIds
HandleInputs == {"alice", "alice1"}
ManagedUserIds == {"u1", "u3"}

UsersCreate ==
  \E u \in NewUserIds, c \in BOOLEAN, a \in BOOLEAN :
    CreateUser(u, "Alice", c, a, NoLoginId)
UsersToggleCanLogin ==
  \E u \in ManagedUserIds, enable \in BOOLEAN :
    ToggleCanLogin(u, enable, NoLoginId)
UsersToggleIsActive ==
  \E u \in ManagedUserIds, enable \in BOOLEAN : ToggleIsActive(u, enable)
UsersSoftDelete == \E u \in ManagedUserIds : SoftDeleteUser(u)
UsersRestore == \E u \in ManagedUserIds : RestoreUser(u)
UsersLogin ==
  /\ \E l \in HandleInputs : Login(l, DefaultPassword, "dev-A")
  /\ SessionBounds'

NextUsers ==
  \/ UsersCreate
  \/ UsersToggleCanLogin
  \/ UsersToggleIsActive
  \/ UsersSoftDelete
  \/ UsersRestore
  \/ UsersLogin

SpecUsers == Init /\ [][NextUsers]_vars

\* ------------------------------------------------------------------------
\* Usernames: credentials are created and deleted for three users, with
\* and without a given loginId
\* ------------------------------------------------------------------------
HandlesCreate ==
  \E u \in NewUserIds, n \in NameInputs, a \in BOOLEAN,
     l \in LoginIdPayloads : CreateUser(u, n, TRUE, a, l)
HandlesToggleCanLogin ==
  \E u \in AllUserIds, enable \in BOOLEAN, l \in LoginIdPayloads :
    ToggleCanLogin(u, enable, l)

NextHandles ==
  \/ HandlesCreate
  \/ HandlesToggleCanLogin

SpecHandles == Init /\ [][NextHandles]_vars

\* C22: an operation that takes the login capability from a user leaves no
\* credential record for that user
C22_DisablingDeletesCredentials ==
  [][\A u \in DOMAIN users :
       (/\ resp'.op \in {"toggleCanLogin", "toggleIsActive", "softDeleteUser"}
        /\ users[u].canLogin
        /\ ~users'[u].canLogin)
         => FindLoginByUser(logins', u) = NoDoc]_vars

\* C23: a user who can log in is active
C23_CanLoginImpliesActive ==
  \A u \in DOMAIN users : users[u].canLogin => users[u].isActive

\* the usernames of the collection are pairwise distinct
HandlesUnique(db) ==
  \A i, j \in DOMAIN db : db[i].username = db[j].username => i = j

\* the suffixes that would give an unused username
UnusedSuffixes(db, base) ==
  {k \in 1..(Cardinality(DOMAIN db) + 1) :
     \A id \in DOMAIN db : db[id].username # base \o ToString(k)}

\* the username the search has to end with
ExpectedHandle(db, base) ==
  IF \A id \in DOMAIN db : db[id].username # base THEN base
  ELSE base \o ToString(CHOOSE k \in UnusedSuffixes(db, base) :
                          \A j \in UnusedSuffixes(db, base) : k <= j)

\* the record a step has added
AddedRecord == logins'[CHOOSE id \in DOMAIN logins' \ DOMAIN logins : TRUE]

\* C24: credentials created without a given loginId get the base username
\* when it is unused, else the base with the smallest positive suffix that
\* is unused, and usernames stay pairwise distinct
C24_DerivedHandleIsFirstFree ==
  [][/\ \A u \in NewUserIds, n \in NameInputs, a \in BOOLEAN :
          CreateUser(u, n, TRUE, a, NoLoginId)
            => /\ DOMAIN logins' # DOMAIN logins
               /\ AddedRecord.username =
                    ExpectedHandle(logins, BaseUsername(u, n, NoLoginId))
               /\ AddedRecord.user = u
               /\ HandlesUnique(logins')
     /\ \A u \in AllUserIds :
          (/\ ToggleCanLogin(u, TRUE, NoLoginId)
           /\ resp'.err = ErrNone
           /\ FindLoginByUser(logins, u) = NoDoc)
            => /\ DOMAIN logins' # DOMAIN logins
               /\ AddedRecord.username =
                    ExpectedHandle(logins,
                                   BaseUsername(u, users[u].name, NoLoginId))
               /\ AddedRecord.user = u
               /\ HandlesUnique(logins')]_vars

\* a user was created while "alice" and "alice1" were taken and got "alice2"
C24_Witness ==
  /\ resp.op = "createUser"
  /\ \E id \in DOMAIN logins :
       logins[id].user = "u3" /\ logins[id].username = "alice2"
  /\ \E id \in DOMAIN logins : logins[id].username = "alice"
  /\ \E id \in DOMAIN logins : logins[id].username = "alice1"

\* C25: a given loginId that is already in use makes the creation fail and
\* no record is created
C25_GivenHandleCollisionFails ==
  [][\A l \in LoginIdPayloads \ {NoLoginId} :
       /\ \A u \in NewUserIds, n \in NameInputs, a \in BOOLEAN :
            (/\ UsernameTaken(logins, BaseUsername(u, n, l))
             /\ CreateUser(u, n, TRUE, a, l))
              => logins' = logins
       /\ \A u \in AllUserIds :
            (/\ u \in DOMAIN users
             /\ UsernameTaken(logins, BaseUsername(u, users[u].name, l))
             /\ users[u].isActive
             /\ FindLoginByUser(logins, u) = NoDoc
             /\ ToggleCanLogin(u, TRUE, l))
              => logins' = logins /\ resp'.err # ErrNone]_vars

\* C26: a successful login reports that the password has to be changed
C26_LoginReportsForceChange ==
  (resp.op = "login" /\ resp.err = ErrNone) => resp.forcePasswordChange

\* C27: a login without a deviceId binds the issued token to a device
\* session named "unknown", for which the token then verifies
C27_MissingDeviceIsUnknownDevice ==
  [][\A pw \in Passwords :
       (Login("Alice", pw, NoDevice) /\ resp'.err = ErrNone)
         => /\ HoldsCurrent(logins'["l1"],
                            JwtSignRefresh(logins["l1"], now), "unknown")
            /\ VerifyRefreshTokenForDevice(
                 logins'["l1"], JwtSignRefresh(logins["l1"], now),
                 "unknown")]_vars

\* C28: no two devices of a record hold the same token
C28_DevicesHoldDistinctTokens ==
  \A id \in DOMAIN logins :
    \A i, j \in 1..Len(logins[id].loggedInDevices) :
      (i # j /\ logins[id].loggedInDevices[i].refreshToken # NullToken)
        => logins[id].loggedInDevices[i].refreshToken #
             logins[id].loggedInDevices[j].refreshToken

\* ------------------------------------------------------------------------
\* Password change, step by step, next to a logout or a refresh of the same
\* user
\* ------------------------------------------------------------------------
PasswordChange ==
  \E p \in ProcIds, old \in Passwords, new \in Passwords :
    ChangePasswordFind(p, "u1", old, new)
PasswordLogout == \E p \in ProcIds, d \in DeviceIds : LogoutFind(p, "u1", d)
PasswordRefresh ==
  \E p \in ProcIds, tk \in PresentableTokens, d \in DeviceIds :
    RefreshFind(p, tk, d)
PasswordSave == \E p \in ProcIds : SaveDoc(p)

NextPassword ==
  \/ PasswordChange
  \/ PasswordLogout
  \/ PasswordRefresh
  \/ PasswordSave

SpecPassword == InitRace /\ [][NextPassword]_vars

\* a changePassword has stored the new hash and a device of the stored
\* record still holds a token it held before the change
TornPasswordChange ==
  \E p \in ProcIds :
    /\ proc[p].pc = "save"
    /\ proc[p].op = "changePassword"
    /\ proc[p].kont = "flagOff"
    /\ logins[proc[p].id].password = proc[p].orig.password
    /\ \E i \in 1..Len(logins[proc[p].id].loggedInDevices) :
         /\ logins[proc[p].id].loggedInDevices[i].refreshToken # NullToken
         /\ HoldsCurrent(proc[p].orig,
                         logins[proc[p].id].loggedInDevices[i].refreshToken,
                         logins[proc[p].id].loggedInDevices[i].deviceId)

\* C29: no handler starts on a record whose password is already the new one
\* while a device still holds a token from before the change
C29_PasswordChangeIsIndivisible ==
  [][\A q \in ProcIds :
       (proc[q].pc = "idle" /\ proc'[q].pc # "idle")
         => ~TornPasswordChange]_vars

\* ------------------------------------------------------------------------
\* Revocation: tokens are issued to two devices at two instants and revoked
\* ------------------------------------------------------------------------
RevocationLogin ==
  /\ \E d \in DeviceIds : Login("Alice", DefaultPassword, d)
  /\ SessionBounds'
RevocationRevoke == \E tk \in PresentableTokens : RevokeToken("u1", tk)
RevocationTick == \E t \in SessionInstants : TickTo(t)

NextRevocation ==
  \/ RevocationLogin
  \/ RevocationRevoke
  \/ RevocationTick

SpecRevocation == Init /\ [][NextRevocation]_vars

\* C30: revoking a token removes the entries of refreshTokens that carry it
\* and nothing else: the device sessions are as before, and the token
\* verifies for exactly the devices it verified for
C30_RevokeTouchesTheListOnly ==
  [][\A tk \in PresentableTokens :
       RevokeToken("u1", tk)
         => /\ logins'["l1"].refreshTokens =
                 SelectSeq(logins["l1"].refreshTokens,
                           LAMBDA e : e.token # tk)
            /\ logins'["l1"].loggedInDevices = logins["l1"].loggedInDevices
            /\ \A d \in DeviceInputs :
                 VerifyRefreshTokenForDevice(logins'["l1"], tk, d)
                   = VerifyRefreshTokenForDevice(logins["l1"], tk, d)]_vars

\* a device's current token was revoked: it is no longer listed and still
\* verifies for the device
C30_Witness ==
  /\ resp.op = "revoke"
  /\ resp.err = ErrNone
  /\ \E tk \in issued, d \in DeviceIds :
       /\ VerifyRefreshTokenForDevice(logins["l1"], tk, d)
       /\ ~Recorded(logins["l1"], tk, d)

\* C31: unlockAccount clears the permanent lock, the failure counter, the
\* lock level and the lock expiry, and leaves the devices, the refreshTokens
\* list, isLoggedIn and the password hash as they were
C31_UnlockClearsLockOnly ==
  [][\A u \in UserIds :
       (UnlockAccount(u) /\ resp'.err = ErrNone)
         => LET id == FindLoginByUser(logins, u)
            IN /\ logins'[id].isPermanentlyLocked = FALSE
               /\ logins'[id].failedLoginAttempts = 0
               /\ logins'[id].lockLevel = 0
               /\ logins'[id].lockUntil = NullDate
               /\ logins'[id].loggedInDevices = logins[id].loggedInDevices
               /\ logins'[id].refreshTokens = logins[id].refreshTokens
               /\ logins'[id].isLoggedIn = logins[id].isLoggedIn
               /\ logins'[id].password = logins[id].password
               /\ \A x \in DOMAIN logins \ {id} : logins'[x] = logins[x]]_vars

\* an account whose session was ended by lockAccount has been unlocked: the
\* device is still logged out
C31_Witness ==
  /\ resp.op = "unlock"
  /\ resp.err = ErrNone
  /\ ~logins["l1"].isPermanentlyLocked
  /\ ~logins["l1"].isLoggedIn
  /\ Len(logins["l1"].loggedInDevices) > 0
  /\ AllDevicesLoggedOut(logins["l1"])

\* C32: a record has at most one device session per deviceId
C32_DeviceIdsUnique ==
  \A id \in DOMAIN logins :
    \A i, j \in 1..Len(logins[id].loggedInDevices) :
      logins[id].loggedInDevices[i].deviceId =
        logins[id].loggedInDevices[j].deviceId => i = j

\* ------------------------------------------------------------------------
\* Sessions: the operations of the service that act on the device sessions
\* of one record, one after the other, at two instants
\* ------------------------------------------------------------------------
SessionsLogin ==
  /\ \E d \in DeviceIds : Login("Alice", DefaultPassword, d)
  /\ SessionBounds'
SessionsRefresh ==
  /\ \E tk \in PresentableTokens, d \in DeviceIds : RefreshTokens(tk, d)
  /\ SessionBounds'
SessionsLogout == \E d \in DeviceIds : Logout("u1", d)
SessionsLogoutAll == LogoutAllDevices("u1")
SessionsLock == LockAccount("u1")
SessionsUnlock == UnlockAccount("u1")
SessionsChangePassword ==
  \E old \in Passwords : ChangePassword("u1", old, DefaultPassword)
SessionsTick == \E t \in SessionInstants : TickTo(t)

NextSessions ==
  \/ SessionsLogin
  \/ SessionsRefresh
  \/ SessionsLogout
  \/ SessionsLogoutAll
  \/ SessionsLock
  \/ SessionsUnlock
  \/ SessionsChangePassword
  \/ SessionsTick

SpecSessions == Init /\ [][NextSessions]_vars

\* ------------------------------------------------------------------------
\* Ledger: every operation of the service on one record, one after the
\* other, at one instant
\* ------------------------------------------------------------------------
LedgerLogin ==
  /\ \E d \in DeviceIds : Login("Alice", DefaultPassword, d)
  /\ SessionBounds'
LedgerRefresh ==
  /\ \E tk \in PresentableTokens, d \in DeviceIds : RefreshTokens(tk, d)
  /\ SessionBounds'
LedgerLogout == \E d \in DeviceIds : Logout("u1", d)
LedgerLogoutAll == LogoutAllDevices("u1")
LedgerRevoke == \E tk \in PresentableTokens : RevokeToken("u1", tk)
LedgerLock == LockAccount("u1")
LedgerUnlock == UnlockAccount("u1")
LedgerChangePassword ==
  \E old \in Passwords : ChangePassword("u1", old, DefaultPassword)

NextLedger ==
  \/ LedgerLogin
  \/ LedgerRefresh
  \/ LedgerLogout
  \/ LedgerLogoutAll
  \/ LedgerRevoke
  \/ LedgerLock
  \/ LedgerUnlock
  \/ LedgerChangePassword

SpecLedger == Init /\ [][NextLedger]_vars

\* C33: no step removes or replaces a device session, and a device session
\* is added only by a successful login from a deviceId the record did not
\* know
C33_DevicesNeverShrink ==
  [][LET before == logins["l1"].loggedInDevices
         after == logins'["l1"].loggedInDevices
     IN /\ Len(after) >= Len(before)
        /\ \A i \in 1..Len(before) : after[i].deviceId = before[i].deviceId
        /\ Len(after) > Len(before)
             => /\ Len(after) = Len(before) + 1
                /\ resp'.op = "login"
                /\ resp'.err = ErrNone
                /\ \A i \in 1..Len(before) :
                     before[i].deviceId # after[Len(after)].deviceId]_vars

\* both devices are still on the record after every session was ended
C33_Witness ==
  /\ resp.op \in {"logoutAll", "lock", "changePassword"}
  /\ resp.err = ErrNone
  /\ Len(logins["l1"].loggedInDevices) = 2
  /\ AllDevicesLoggedOut(logins["l1"])

\* C34: a successful login appends exactly one entry for the token it
\* issues to the refreshTokens list; apart from that the list changes only
\* by a revoke, which takes out the entries of one token, and by logoutAll,
\* lockAccount and changePassword, which empty it
C34_TokenListAppendOnly ==
  [][LET before == logins["l1"].refreshTokens
         after == logins'["l1"].refreshTokens
     IN /\ \/ after = before
           \/ /\ resp'.op \in {"login", "refresh"}
              /\ resp'.err = ErrNone
              /\ Len(after) = Len(before) + 1
              /\ SubSeq(after, 1, Len(before)) = before
              /\ after[Len(after)].token = JwtSignRefresh(logins["l1"], now)
              /\ after[Len(after)].deviceId \in DeviceIds
           \/ /\ resp'.op = "revoke"
              /\ \E tk \in PresentableTokens :
                   after = SelectSeq(before, LAMBDA e : e.token # tk)
           \/ /\ resp'.op \in {"logoutAll", "lock", "changePassword"}
              /\ resp'.err = ErrNone
              /\ after = << >>
        /\ \A d \in DeviceIds :
             (Login("Alice", DefaultPassword, d) /\ resp'.err = ErrNone)
               => Len(after) = Len(before) + 1]_vars

\* a second login from the same device has added a second entry
C34_Witness ==
  /\ resp.op = "login"
  /\ resp.err = ErrNone
  /\ Len(logins["l1"].refreshTokens) = 2
  /\ logins["l1"].refreshTokens[1].deviceId =
       logins["l1"].refreshTokens[2].deviceId

\* C35: in every step the history of every device keeps its entries in
\* order, with their loginAt; a logoutAt that is set stays as it is, and a
\* logoutAt is set on the last entry only
C35_HistoryAppendOnly ==
  [][\A i \in 1..Len(logins["l1"].loggedInDevices) :
       LET before == logins["l1"].loggedInDevices[i].loginHistory
           after == logins'["l1"].loggedInDevices[i].loginHistory
       IN /\ Len(after) >= Len(before)
          /\ \A k \in 1..Len(before) :
               /\ after[k].loginAt = before[k].loginAt
               /\ before[k].logoutAt # NullDate
                    => after[k].logoutAt = before[k].logoutAt
               /\ after[k].logoutAt # before[k].logoutAt
                    => k = Len(before) /\ k = Len(after)]_vars

\* a device was logged out twice, at two instants: both entries keep their
\* own logoutAt
C35_Witness ==
  \E i \in 1..Len(logins["l1"].loggedInDevices) :
    LET hist == logins["l1"].loggedInDevices[i].loginHistory
    IN /\ Len(hist) = 2
       /\ hist[1].logoutAt # NullDate
       /\ hist[2].logoutAt # NullDate
       /\ hist[1].logoutAt # hist[2].logoutAt

\* C40: a device holds a token exactly when its last history entry is open
C40_TokenIffOpenEntry ==
  \A i \in 1..Len(logins["l1"].loggedInDevices) :
    LET dev == logins["l1"].loggedInDevices[i]
    IN /\ Len(dev.loginHistory) > 0
       /\ dev.refreshToken # NullToken
            <=> dev.loginHistory[Len(dev.loginHistory)].logoutAt = NullDate

\* one device was logged out and is logged in again, the other is logged out
C40_Witness ==
  /\ Len(logins["l1"].loggedInDevices) = 2
  /\ \E i, j \in 1..2 :
       /\ logins["l1"].loggedInDevices[i].refreshToken # NullToken
       /\ Len(logins["l1"].loggedInDevices[i].loginHistory) = 2
       /\ logins["l1"].loggedInDevices[i].loginHistory[1].logoutAt # NullDate
       /\ logins["l1"].loggedInDevices[j].refreshToken = NullToken

\* ------------------------------------------------------------------------
\* A login and a refresh next to lockAccount, step by step
\* ------------------------------------------------------------------------
LockRaceLogin ==
  \E p \in ProcIds, d \in DeviceIds : LoginFind(p, "Alice", DefaultPassword, d)
LockRaceLoginCompare == \E p \in ProcIds : LoginCompare(p)
LockRaceLoginCheckUser == \E p \in ProcIds : LoginCheckUser(p)
LockRaceRefresh ==
  \E p \in ProcIds, tk \in PresentableTokens, d \in DeviceIds :
    RefreshFind(p, tk, d)
LockRaceLock == \E p \in ProcIds : LockFind(p, "u1")
LockRaceSave == \E p \in ProcIds : SaveDoc(p)

NextLockRace ==
  \/ LockRaceLogin
  \/ LockRaceLoginCompare
  \/ LockRaceLoginCheckUser
  \/ LockRaceRefresh
  \/ LockRaceLock
  \/ LockRaceSave

SpecLockRace == InitRace /\ [][NextLockRace]_vars

\* C36: no device of a permanently locked record holds a token
C36_LockedRecordHasNoSession ==
  \A id \in DOMAIN logins :
    logins[id].isPermanentlyLocked => AllDevicesLoggedOut(logins[id])

\* C37: the passing of time changes no record, and a wrong password on a
\* record whose temporary lock has expired, with the failure count still at
\* the threshold or above, locks it again for the full duration from now
C37_ExpiredLockRelocksAtOnce ==
  [][/\ \A t \in Instants : TickTo(t) => logins' = logins
     /\ \A l \in LoginIdInputs, pw \in Passwords :
          LET id == ResolveLogin(logins, users, l)
          IN (/\ Login(l, pw, "dev-A")
              /\ id # NoDoc
              /\ ~logins[id].isPermanentlyLocked
              /\ logins[id].lockUntil # NullDate
              /\ now >= logins[id].lockUntil
              /\ logins[id].failedLoginAttempts >= FailureThreshold
              /\ ~ComparePassword(logins[id], pw))
               => /\ resp'.err = ErrBadPassword
                  /\ logins'[id].failedLoginAttempts =
                       logins[id].failedLoginAttempts + 1
                  /\ logins'[id].lockLevel = 1
                  /\ logins'[id].lockUntil = now + LockDurationMs]_vars

\* the sixth wrong password came after the lock of the fifth had expired
\* and has locked the record again
C37_Witness ==
  /\ resp.op = "login"
  /\ resp.err = ErrBadPassword
  /\ resp.seen = FailureThreshold
  /\ now >= LockDurationMs
  /\ logins["l1"].failedLoginAttempts = FailureThreshold + 1
  /\ logins["l1"].lockUntil = now + LockDurationMs

\* C38: a login on a record that is permanently locked, or temporarily
\* locked with the lock not yet expired, is answered with the lock's error
\* and changes nothing, whatever the password
C38_DeniedLoginChangesNothing ==
  [][\A l \in LoginIdInputs, pw \in Passwords :
       LET id == ResolveLogin(logins, users, l)
       IN (/\ Login(l, pw, "dev-A")
           /\ id # NoDoc
           /\ \/ logins[id].isPermanentlyLocked
              \/ logins[id].lockUntil # NullDate /\ now < logins[id].lockUntil)
            => /\ logins' = logins
               /\ issued' = issued
               /\ resp'.err = IF logins[id].isPermanentlyLocked
                                THEN ErrPermLocked ELSE ErrTempLocked]_vars

\* a login was refused on a record that is both permanently locked and
\* within a temporary lock
C38_Witness ==
  /\ resp.op = "login"
  /\ resp.err = ErrPermLocked
  /\ logins["l1"].isPermanentlyLocked
  /\ logins["l1"].failedLoginAttempts = FailureThreshold
  /\ now < logins["l1"].lockUntil

\* ------------------------------------------------------------------------
\* Refresh while an administrator deactivates the user or withdraws the
\* login capability
\* ------------------------------------------------------------------------
GateLogin ==
  /\ \E d \in DeviceIds : Login("Alice", DefaultPassword, d)
  /\ SessionBounds'
GateRefresh ==
  /\ \E tk \in PresentableTokens, d \in DeviceIds : RefreshTokens(tk, d)
  /\ SessionBounds'
GateToggleIsActive == \E enable \in BOOLEAN : ToggleIsActive("u1", enable)
GateToggleCanLogin ==
  \E enable \in BOOLEAN : ToggleCanLogin("u1", enable, NoLoginId)
GateTick == \E t \in SessionInstants : TickTo(t)

NextGate ==
  \/ GateLogin
  \/ GateRefresh
  \/ GateToggleIsActive
  \/ GateToggleCanLogin
  \/ GateTick

SpecGate == Init /\ [][NextGate]_vars

\* C39: a refresh with a token of a user who cannot log in or is inactive
\* fails and changes nothing
C39_NoRefreshWhileDisabled ==
  [][\A tk \in PresentableTokens, d \in DeviceIds :
       (/\ RefreshTokens(tk, d)
        /\ tk.id \in DOMAIN users
        /\ ~users[tk.id].canLogin \/ ~users[tk.id].isActive)
         => /\ resp'.err # ErrNone
            /\ logins' = logins
            /\ issued' = issued]_vars

\* a refresh was refused for a deactivated user whose device still holds the
\* token of a session opened before
C39_Witness ==
  /\ resp.op = "refresh"
  /\ resp.err # ErrNone
  /\ ~users["u1"].isActive
  /\ \E id \in DOMAIN logins, tk \in issued, d \in DeviceIds :
       /\ logins[id].user = "u1"
       /\ VerifyRefreshTokenForDevice(logins[id], tk, d)

====
